---- MODULE Spec2Model ----
(***************************************************************************)
(* Model of the project sync pipeline (scripts/sync-projects.js) and of    *)
(* the tabular store it writes (scripts/csvService.js).                    *)
(*                                                                         *)
(* Money is modelled with exact rationals [num, den]; the source uses IEEE *)
(* doubles, so equalities below are the exact-arithmetic reading of the    *)
(* source's arithmetic.                                                    *)
(***************************************************************************)
EXTENDS Integers, Sequences, FiniteSets, TLC

(***************************************************************************)
(* Bounds of the model.                                                    *)
(***************************************************************************)
MaxProjects == 2
MaxBudget == 3
MaxCollabs == 2
MaxMilestones == 3
MaxRows == 2
MaxOrgs == 1
MaxSummands == 3
MaxPoas == 3

(***************************************************************************)
(* Exact arithmetic.                                                       *)
(***************************************************************************)
Abs(x) == IF x < 0 THEN -x ELSE x

RECURSIVE GCD(_, _)
GCD(a, b) == IF b = 0 THEN a ELSE GCD(b, a % b)

\* n/d in lowest terms with a positive denominator (d # 0).
Frac(n, d) ==
  LET g == GCD(Abs(n), Abs(d))
      s == IF d < 0 THEN -1 ELSE 1
  IN  [num |-> (s * n) \div g, den |-> (s * d) \div g]

R(n) == [num |-> n, den |-> 1]
RatAdd(a, b) == Frac(a.num * b.den + b.num * a.den, a.den * b.den)
RatSub(a, b) == Frac(a.num * b.den - b.num * a.den, a.den * b.den)
RatMul(a, b) == Frac(a.num * b.num, a.den * b.den)
RatDiv(a, b) == Frac(a.num * b.den, a.den * b.num)
RatLess(a, b) == a.num * b.den < b.num * a.den
RatPos(a) == a.num > 0

RECURSIVE RatSum(_)
RatSum(s) == IF s = <<>> THEN R(0) ELSE RatAdd(RatSum(Tail(s)), Head(s))

RECURSIVE Flatten(_)
Flatten(ss) == IF ss = <<>> THEN <<>> ELSE Head(ss) \o Flatten(Tail(ss))

\* Sequences over S of length at most n.
SeqsUpTo(S, n) == UNION {[1..k -> S] : k \in 0..n}

(***************************************************************************)
(* calculateMonthlyBudget                                                  *)
(***************************************************************************)
NoDate == [y |-> 0, m |-> 0]

\* new Date() of the run.
Now == [y |-> 2026, m |-> 11]

\* Mutant of Months: the distance of the two months, without its sign.
MonthsAbsolute(dateRanges) ==
  LET startDate == IF dateRanges.start # NoDate THEN dateRanges.start ELSE Now
      endDate == IF dateRanges.end # NoDate THEN dateRanges.end
                 ELSE [y |-> startDate.y + 1, m |-> startDate.m]
  IN  Abs((endDate.y - startDate.y) * 12 + (endDate.m - startDate.m))

Months(dateRanges) ==
  LET startDate == IF dateRanges.start # NoDate THEN dateRanges.start ELSE Now
      endDate == IF dateRanges.end # NoDate THEN dateRanges.end
                 ELSE [y |-> startDate.y + 1, m |-> startDate.m]
  IN  (endDate.y - startDate.y) * 12 + (endDate.m - startDate.m)

\* Mutant of CollaboratorAllocation: the fraction of an explicit amount is
\* taken of the monthly budget.
CollaboratorAllocationOfMonthly(collaborator, totalBudget, monthlyBudget, months) ==
  IF collaborator.kind = "amount"
  THEN LET totalAmount == collaborator.value
       IN  [name |-> collaborator.name,
            totalAmount |-> totalAmount,
            monthlyAmount |-> IF months > 0 THEN RatDiv(totalAmount, R(months))
                              ELSE totalAmount,
            allocation |-> IF RatPos(monthlyBudget)
                           THEN RatDiv(totalAmount, monthlyBudget) ELSE R(0)]
  ELSE [name |-> collaborator.name,
        totalAmount |-> RatMul(totalBudget, collaborator.value),
        monthlyAmount |-> RatMul(monthlyBudget, collaborator.value),
        allocation |-> collaborator.value]

CollaboratorAllocation(collaborator, totalBudget, monthlyBudget, months) ==
  IF collaborator.kind = "amount"
  THEN LET totalAmount == collaborator.value
       IN  [name |-> collaborator.name,
            totalAmount |-> totalAmount,
            monthlyAmount |-> IF months > 0 THEN RatDiv(totalAmount, R(months))
                              ELSE totalAmount,
            allocation |-> IF RatPos(totalBudget)
                           THEN RatDiv(totalAmount, totalBudget) ELSE R(0)]
  ELSE [name |-> collaborator.name,
        totalAmount |-> RatMul(totalBudget, collaborator.value),
        monthlyAmount |-> RatMul(monthlyBudget, collaborator.value),
        allocation |-> collaborator.value]

\* Mutant of TotalCollaboratorFunds: the monthly amounts are added up.
TotalCollaboratorMonthly(collaboratorAllocations) ==
  RatSum([i \in 1..Len(collaboratorAllocations) |->
            collaboratorAllocations[i].monthlyAmount])

TotalCollaboratorFunds(collaboratorAllocations) ==
  RatSum([i \in 1..Len(collaboratorAllocations) |->
            collaboratorAllocations[i].totalAmount])

\* Mutant of OrganizationFunds: the residual is clamped at 0.
OrganizationFundsClamped(totalBudget, collaboratorAllocations) ==
  IF RatLess(totalBudget, TotalCollaboratorFunds(collaboratorAllocations))
  THEN R(0)
  ELSE RatSub(totalBudget, TotalCollaboratorFunds(collaboratorAllocations))

OrganizationFunds(totalBudget, collaboratorAllocations) ==
  RatSub(totalBudget, TotalCollaboratorFunds(collaboratorAllocations))

calculateMonthlyBudget(proposal, projectConfig) ==
  LET months == Months(projectConfig.dateRanges)
      totalBudget == R(proposal.budget)
      monthlyBudget == IF months > 0 THEN RatDiv(totalBudget, R(months))
                       ELSE totalBudget
      collaboratorAllocations ==
        [i \in 1..Len(projectConfig.collaborators) |->
           CollaboratorAllocation(projectConfig.collaborators[i],
                                  totalBudget, monthlyBudget, months)]
  IN  [totalBudget |-> totalBudget,
       monthlyBudget |-> monthlyBudget,
       months |-> months,
       collaboratorAllocations |-> collaboratorAllocations,
       organizationFunds |-> OrganizationFunds(totalBudget, collaboratorAllocations)]

(***************************************************************************)
(* The world of a run: src/config/projects.json and the external services. *)
(* Five projects cover the cases of processProject: a new proposal without *)
(* snapshots, a partially snapshotted one, a project without wallet, a     *)
(* project without backend proposal and a completely reviewed one.         *)
(***************************************************************************)
ProjectIds == {1, 2, 3, 4, 5}

Date(y, m) == [y |-> y, m |-> m]
Amount(name, a) == [name |-> name, kind |-> "amount", value |-> R(a)]
Allocation(name, n, d) == [name |-> name, kind |-> "allocation", value |-> Frac(n, d)]

ProjectEntry(id) ==
  CASE id = 1 -> [project_id |-> 1, wallet |-> "addr1",
                  dateRanges |-> [start |-> Date(2025, 1), end |-> Date(2026, 1)],
                  collaborators |-> <<Amount("alice", 4)>>]
    [] id = 2 -> [project_id |-> 2, wallet |-> "addr2",
                  dateRanges |-> [start |-> Date(2025, 3), end |-> NoDate],
                  collaborators |-> <<Amount("alice", 4), Amount("bob", 8)>>]
    [] id = 3 -> [project_id |-> 3, wallet |-> "",
                  dateRanges |-> [start |-> NoDate, end |-> NoDate],
                  collaborators |-> <<>>]
    [] id = 4 -> [project_id |-> 4, wallet |-> "addr4",
                  dateRanges |-> [start |-> Date(2025, 6), end |-> Date(2025, 6)],
                  collaborators |-> <<>>]
    [] id = 5 -> [project_id |-> 5, wallet |-> "addr5",
                  dateRanges |-> [start |-> Date(2025, 1), end |-> Date(2025, 7)],
                  collaborators |-> <<Allocation("carol", 1, 2)>>]

\* The proposals table of the backend: at most one row per project_id.
NoProposal == [project_id |-> 0, title |-> "", budget |-> 0,
               funds_distributed |-> 0, milestones_qty |-> 0]

ProposalRow(id) ==
  CASE id = 1 -> [project_id |-> 1, title |-> "P1", budget |-> 10,
                  funds_distributed |-> 0, milestones_qty |-> 4]
    [] id = 2 -> [project_id |-> 2, title |-> "P2", budget |-> 10,
                  funds_distributed |-> 3, milestones_qty |-> 3]
    [] id = 5 -> [project_id |-> 5, title |-> "P5", budget |-> 9,
                  funds_distributed |-> 4, milestones_qty |-> 1]
    [] OTHER -> NoProposal

\* The rows of the getproposalsnapshot RPC.
SnapshotRows(id) ==
  CASE id = 2 -> <<[milestone |-> 2, som_signoff_count |-> 1, poa_signoff_count |-> 0]>>
    [] id = 5 -> <<[milestone |-> 1, som_signoff_count |-> 2, poa_signoff_count |-> 1]>>
    [] OTHER -> <<>>

\* A proof of achievement: its current review and its signoffs, as the
\* query returns them. A created_at is a number: an ISO timestamp sorts as
\* its instant does.
SignedPoa(approved, stamps) ==
  [content_approved |-> approved,
   signoffs |-> [i \in 1..Len(stamps) |-> [created_at |-> stamps[i]]]]

\* A proof of achievement with one signoff, or with none (signoff = 0).
Poa(approved, signoff) ==
  SignedPoa(approved, IF signoff = 0 THEN <<>> ELSE <<signoff>>)

\* The soms rows the review query selects (inner joins, limit 1).
SomRows(id, milestone) ==
  CASE id = 5 /\ milestone = 1 ->
         <<[month |-> 3, cost |-> 5, completion |-> 100,
            som_reviews |-> <<[outputs_approves |-> TRUE,
                               success_criteria_approves |-> TRUE,
                               evidence_approves |-> TRUE]>>,
            poas |-> <<Poa(FALSE, 0), Poa(TRUE, 2), Poa(FALSE, 1)>>]>>
    [] id = 2 /\ milestone = 2 ->
         <<[month |-> 0, cost |-> 0, completion |-> 0,
            som_reviews |-> <<[outputs_approves |-> TRUE,
                               success_criteria_approves |-> FALSE,
                               evidence_approves |-> FALSE]>>,
            poas |-> <<Poa(FALSE, 0)>>]>>
    [] OTHER -> <<>>

LovelacePerAda == 1000000

Output(addr, value) == [addr |-> addr, value |-> value]

Tx(hash, timestamp, outputs, metadata) ==
  [tx_hash |-> hash, tx_timestamp |-> timestamp, outputs |-> outputs,
   metadata |-> metadata]

\* The indexer's transactions of a wallet.
WalletTxs(wallet) ==
  CASE wallet = "addr1" ->
         <<Tx("h1", 86400 * 3 + 5,
              <<Output("addr1", 5000000), Output("other", 7000000),
                Output("addr1", 2500000)>>, "grant"),
           Tx("h2", 86400 * 9, <<Output("", 1000000), Output("other", 1)>>, "")>>
    [] wallet = "addr5" ->
         <<Tx("h3", 86400 * 4, <<Output("addr5", 12000000)>>, "")>>
    [] OTHER -> <<>>

Org(name, real, max, wallet) ==
  [name |-> name, realMonthlyBudget |-> real, maxMonthlyBudget |-> max,
   wallet |-> wallet]

OrganizationLists ==
  {<<>>, <<Org("dao", 4, 0, "orgw"), Org("lab", 3, 8, "")>>}

Injective(s) == \A i, j \in 1..Len(s) : s[i] = s[j] => i = j

\* The configurations: lists of distinct projects, possibly empty.
ProjectLists ==
  {[i \in 1..Len(ids) |-> ProjectEntry(ids[i])] :
     ids \in {s \in SeqsUpTo(ProjectIds, MaxProjects) : Injective(s)}}

(***************************************************************************)
(* processProject: the pure parts.                                         *)
(***************************************************************************)
\* Math.round of a rational: the nearest integer, halves towards +Infinity.
MathRound(x) == (2 * x.num + x.den) \div (2 * x.den)

\* budget / milestones_qty of IEEE arithmetic: den = 0 stands for
\* Infinity (num = 1) and NaN (num = 0), which Math.round leaves alone.
EvenCost(proposal) ==
  IF proposal.milestones_qty = 0
  THEN [num |-> IF proposal.budget > 0 THEN 1 ELSE 0, den |-> 0]
  ELSE R(MathRound(Frac(proposal.budget, proposal.milestones_qty)))

\* Mutant of ReceivedAmount: every output counts, whatever its address.
ReceivedAmountAllOutputs(tx, wallet) ==
  RatSum([i \in 1..Len(tx.outputs) |-> Frac(tx.outputs[i].value, LovelacePerAda)])

\* The amount a transaction pays to the tracked wallet, in ADA.
ReceivedAmount(tx, wallet) ==
  LET matching == SelectSeq(tx.outputs, LAMBDA o : o.addr # "" /\ o.addr = wallet)
  IN  RatSum([i \in 1..Len(matching) |-> Frac(matching[i].value, LovelacePerAda)])

TxRecord(tx, wallet) ==
  [txHash |-> tx.tx_hash,
   date |-> tx.tx_timestamp \div 86400,
   amount |-> ReceivedAmount(tx, wallet),
   metadata |-> tx.metadata]

\* koiosWrapper.fetchWalletTransactions: the transactions of the wallet in
\* the date range, nothing when the indexer call fails.
fetchWalletTransactions(wallet, dateRanges, ok) ==
  IF ok THEN WalletTxs(wallet) ELSE <<>>

processWalletTransactions(wallet, dateRanges, ok) ==
  LET txs == fetchWalletTransactions(wallet, dateRanges, ok)
  IN  [i \in 1..Len(txs) |-> TxRecord(txs[i], wallet)]

\* a.signoffs?.[0]?.created_at || '0', the key of the sort; 0 is below every
\* created_at.
SignoffDate(poa) ==
  IF Len(poa.signoffs) > 0 THEN poa.signoffs[1].created_at ELSE 0

\* The index of the first variant whose key is the greatest: the head of
\* the stable descending sort.
RECURSIVE LatestPoaIndex(_, _)
LatestPoaIndex(poas, i) ==
  IF \A j \in 1..Len(poas) : SignoffDate(poas[j]) <= SignoffDate(poas[i])
  THEN i ELSE LatestPoaIndex(poas, i + 1)

\* What fetchMilestoneData returns for the rows of the review query.
SelectPoa(data) ==
  IF Len(data) > 0 /\ Len(data[1].poas) > 1
  THEN <<[data[1] EXCEPT !.poas = <<data[1].poas[LatestPoaIndex(data[1].poas, 1)]>>]>>
  ELSE data

MilestoneBase(proposal, projectId) ==
  [title |-> proposal.title, project_id |-> projectId,
   budget |-> proposal.budget,
   funds_distributed |-> proposal.funds_distributed,
   milestones_qty |-> proposal.milestones_qty]

Merge(f, g) == [k \in DOMAIN f \cup DOMAIN g |-> IF k \in DOMAIN f THEN f[k] ELSE g[k]]

\* The entry pushed for a snapshot (sync-projects.js 316-333).
SnapshotMilestone(proposal, projectId, snapshot, milestoneData) ==
  LET has == Len(milestoneData) > 0
      d == IF has THEN milestoneData[1] ELSE <<>>
      review == has /\ Len(d.som_reviews) > 0
      poa == has /\ Len(d.poas) > 0
  IN  Merge(MilestoneBase(proposal, projectId),
        [milestone |-> snapshot.milestone,
         month |-> IF has /\ d.month # 0 THEN d.month ELSE snapshot.milestone,
         cost |-> IF has /\ d.cost # 0 THEN R(d.cost) ELSE EvenCost(proposal),
         completion |-> IF has THEN d.completion ELSE 0,
         som_signoff_count |-> snapshot.som_signoff_count,
         poa_signoff_count |-> snapshot.poa_signoff_count,
         outputs_approved |-> review /\ d.som_reviews[1].outputs_approves,
         success_criteria_approved |->
           review /\ d.som_reviews[1].success_criteria_approves,
         evidence_approved |-> review /\ d.som_reviews[1].evidence_approves,
         poa_content_approved |-> poa /\ d.poas[1].content_approved])

\* The entry synthesized for milestone i of a proposal without snapshots
\* (sync-projects.js 338-355).
SynthesizedMilestone(proposal, projectId, i) ==
  Merge(MilestoneBase(proposal, projectId),
    [milestone |-> i, month |-> i, cost |-> EvenCost(proposal), completion |-> 0,
     som_signoff_count |-> 0, poa_signoff_count |-> 0,
     outputs_approved |-> FALSE, success_criteria_approved |-> FALSE,
     evidence_approved |-> FALSE, poa_content_approved |-> FALSE])

\* Mutant of SynthesizedMilestones: the loop stops one milestone early.
SynthesizedMilestonesOffByOne(proposal, projectId) ==
  [i \in 1..(proposal.milestones_qty - 1) |->
     SynthesizedMilestone(proposal, projectId, i)]

SynthesizedMilestones(proposal, projectId) ==
  [i \in 1..proposal.milestones_qty |-> SynthesizedMilestone(proposal, projectId, i)]

MilestoneRow(m) ==
  <<m.title, m.project_id, m.milestone, m.month, m.cost, m.completion, m.budget,
    m.funds_distributed, m.milestones_qty, m.som_signoff_count,
    m.poa_signoff_count, m.outputs_approved, m.success_criteria_approved,
    m.evidence_approved, m.poa_content_approved>>

TransactionRow(projectId, proposal, tx) ==
  <<projectId, proposal.title, tx.txHash, tx.date, tx.amount, tx.metadata>>

CollaboratorRow(projectId, proposal, financials, c) ==
  <<projectId, proposal.title, financials.totalBudget, c.name, c.totalAmount,
    financials.organizationFunds>>

TotalReceived(transactions) ==
  RatSum([i \in 1..Len(transactions) |-> transactions[i].amount])

ProposalRowForSheet(projectId, proposal, transactions) ==
  <<proposal.project_id, proposal.title, proposal.budget,
    proposal.funds_distributed,
    RatSub(R(proposal.budget), TotalReceived(transactions)),
    proposal.milestones_qty, <<"projects", projectId>>>>

\* The value processProject resolves to (sync-projects.js 359-428).
ProjectData(projectId, projectConfig, proposal, transactions, milestones) ==
  LET financials == calculateMonthlyBudget(proposal, projectConfig)
  IN  [projectId |-> projectId,
       proposal |-> proposal,
       milestones |-> milestones,
       transactions |-> transactions,
       financials |-> financials,
       milestonesForSheet |-> [i \in 1..Len(milestones) |-> MilestoneRow(milestones[i])],
       transactionsForSheet |->
         [i \in 1..Len(transactions) |->
            TransactionRow(projectId, proposal, transactions[i])],
       proposalForSheet |-> <<ProposalRowForSheet(projectId, proposal, transactions)>>,
       collaboratorsForSheet |->
         [i \in 1..Len(financials.collaboratorAllocations) |->
            CollaboratorRow(projectId, proposal, financials,
                            financials.collaboratorAllocations[i])]]

(***************************************************************************)
(* The global rollup and the tables of main: the pure parts.               *)
(***************************************************************************)
\* The lovelaces pool.pm reports for a wallet.
WalletLovelaces(wallet) ==
  CASE wallet = "orgw" -> 10500000
    [] wallet = "orgv" -> 4000000
    [] OTHER -> 0

\* The ADA/USD price the ticker reports.
TickerPrice == Frac(1, 2)

\* Number(x.toFixed(2))
ToFixed2(x) == Frac(MathRound(RatMul(x, R(100))), 100)

\* Mutant of Runway: the quotient is truncated.
RunwayTruncated(walletBalanceAda, monthlyBudget) ==
  IF monthlyBudget > 0
  THEN RatDiv(walletBalanceAda, R(monthlyBudget)).num
         \div RatDiv(walletBalanceAda, R(monthlyBudget)).den
  ELSE 0

Runway(walletBalanceAda, monthlyBudget) ==
  IF monthlyBudget > 0 THEN MathRound(RatDiv(walletBalanceAda, R(monthlyBudget)))
  ELSE 0

TotalBudgetAll(projects) ==
  RatSum([i \in 1..Len(projects) |-> projects[i].financials.totalBudget])

TotalReceivedAll(projects) ==
  RatSum([i \in 1..Len(projects) |-> TotalReceived(projects[i].transactions)])

GlobalFinancialsRow(org, projects, walletBalanceAda, rate) ==
  <<"ALL", org.name, TotalBudgetAll(projects), org.realMonthlyBudget,
    Runway(walletBalanceAda, org.realMonthlyBudget), org.maxMonthlyBudget,
    Runway(walletBalanceAda, org.maxMonthlyBudget), TotalReceivedAll(projects),
    RatSub(TotalBudgetAll(projects), TotalReceivedAll(projects)),
    ToFixed2(walletBalanceAda), ToFixed2(RatMul(walletBalanceAda, rate))>>

\* The tables in the order main writes them.
TableOrder ==
  <<"milestones", "transactions", "global_financials", "proposals", "collaborators">>

TableNames == {TableOrder[i] : i \in 1..Len(TableOrder)}

Headers(table) ==
  CASE table = "milestones" ->
         <<"title", "project_id", "milestone", "month", "cost", "completion",
           "budget", "funds_distributed", "milestones_qty", "som_signoff_count",
           "poa_signoff_count", "outputs_approved", "success_criteria_approved",
           "evidence_approved", "poa_content_approved">>
    [] table = "transactions" ->
         <<"Project ID", "Project Title", "Transaction Hash", "Date", "Amount",
           "Metadata">>
    [] table = "global_financials" ->
         <<"Projects", "Organization", "Total Budget All Projects",
           "Real Monthly Budget", "Months with Real Budget", "Max Monthly Budget",
           "Months with Max Budget", "Total Received", "Remaining Funds",
           "Wallet Balance (ADA)", "Wallet Balance (USD)">>
    [] table = "proposals" ->
         <<"Project ID", "Title", "Budget", "Funds Distributed", "Remaining Funds",
           "Milestones Quantity", "Milestone URL">>
    [] table = "collaborators" ->
         <<"Project ID", "Project Title", "Total Budget", "Collaborator Name",
           "Funds Allocated to Collaborator", "Funds Left to Organization">>

\* What a table file holds: the header line and the data lines.
Table(header, rows) == [header |-> header, rows |-> rows]

\* The file of an earlier run.
StaleTable == Table(<<"stale">>, <<>>)

(***************************************************************************)
(* The text of a table file. A string is a sequence of characters.         *)
(***************************************************************************)
Comma == ","
Quote == "\""
Newline == "\n"
Space == " "

Includes(str, ch) == \E i \in 1..Len(str) : str[i] = ch

\* cellStr.replace(/"/g, '""')
RECURSIVE DoubleQuotes(_)
DoubleQuotes(str) ==
  IF str = <<>> THEN <<>>
  ELSE (IF Head(str) = Quote THEN <<Quote, Quote>> ELSE <<Head(str)>>)
         \o DoubleQuotes(Tail(str))

\* Array.prototype.join
RECURSIVE Join(_, _)
Join(strs, separator) ==
  IF strs = <<>> THEN <<>>
  ELSE IF Len(strs) = 1 THEN strs[1]
  ELSE strs[1] \o separator \o Join(Tail(strs), separator)

\* The cell of arrayToCsv (csvService.js 42-54), for a cell that is a string.
EscapeCell(cellStr) ==
  IF Includes(cellStr, Comma) \/ Includes(cellStr, Quote) \/ Includes(cellStr, Newline)
  THEN <<Quote>> \o DoubleQuotes(cellStr) \o <<Quote>>
  ELSE cellStr

arrayToCsv(data) ==
  Join([i \in 1..Len(data) |->
          Join([j \in 1..Len(data[i]) |-> EscapeCell(data[i][j])], <<Comma>>)],
       <<Newline>>)

\* The text updateCsv writes for a header and its rows.
CsvData(table) == arrayToCsv(<<table.header>> \o table.rows)

\* String.prototype.split on a one-character separator: the pieces between
\* the separators, one empty piece for the empty string.
Split(str, separator) ==
  LET at == {i \in 1..Len(str) : str[i] = separator}
      nth(k) == CHOOSE i \in at : Cardinality({j \in at : j < i}) = k - 1
      from(k) == IF k = 1 THEN 1 ELSE nth(k - 1) + 1
      to(k) == IF k = Cardinality(at) + 1 THEN Len(str) ELSE nth(k) - 1
  IN  [k \in 1..(Cardinality(at) + 1) |-> SubSeq(str, from(k), to(k))]

\* readCsv of scripts/csvService.js (110-111) on the content of a file.
ParseCsv(content) ==
  LET lines == Split(content, Newline)
  IN  [i \in 1..Len(lines) |-> Split(lines[i], Comma)]

\* The lookahead (?=\s*,|\s*$) at position k of a line.
RECURSIVE FieldEndsAt(_, _)
FieldEndsAt(row, k) ==
  IF k > Len(row) THEN TRUE
  ELSE IF row[k] = Comma THEN TRUE
  ELSE IF row[k] = Space THEN FieldEndsAt(row, k + 1)
  ELSE FALSE

\* ".*?" from the quote at position p: the position of the first closing
\* quote the lookahead accepts, 0 when there is none.
RECURSIVE QuotedFieldEnd(_, _, _)
QuotedFieldEnd(row, p, q) ==
  IF q > Len(row) THEN 0
  ELSE IF row[q] = Quote /\ FieldEndsAt(row, q + 1) THEN q
  ELSE QuotedFieldEnd(row, p, q + 1)

\* [^",]+ from position p: the end of the longest run, which is the only
\* one the lookahead can accept; 0 when there is no match.
RECURSIVE RunEnd(_, _)
RunEnd(row, k) ==
  IF k < Len(row) /\ row[k + 1] \notin {Quote, Comma} THEN RunEnd(row, k + 1) ELSE k

PlainFieldEnd(row, p) ==
  IF row[p] \in {Quote, Comma} THEN 0
  ELSE IF FieldEndsAt(row, RunEnd(row, p) + 1) THEN RunEnd(row, p) ELSE 0

\* field.slice(1, -1).replace(/""/g, '"') of a field in quotes.
RECURSIVE UndoubleQuotes(_)
UndoubleQuotes(str) ==
  IF Len(str) >= 2 /\ str[1] = Quote /\ str[2] = Quote
  THEN <<Quote>> \o UndoubleQuotes(SubSeq(str, 3, Len(str)))
  ELSE IF str = <<>> THEN <<>>
  ELSE <<Head(str)>> \o UndoubleQuotes(Tail(str))

Unquote(field) ==
  IF field[1] = Quote /\ field[Len(field)] = Quote
  THEN UndoubleQuotes(SubSeq(field, 2, Len(field) - 1))
  ELSE field

\* row.match(/(".*?"|[^",]+)(?=\s*,|\s*$)/g) from position p on, each match
\* unquoted (projects.ts 43-48).
RECURSIVE MatchFields(_, _)
MatchFields(row, p) ==
  IF p > Len(row) THEN <<>>
  ELSE LET end == IF row[p] = Quote THEN QuotedFieldEnd(row, p, p + 1)
                  ELSE PlainFieldEnd(row, p)
       IN  IF end = 0 THEN MatchFields(row, p + 1)
           ELSE <<Unquote(SubSeq(row, p, end))>> \o MatchFields(row, end + 1)

\* readCsv of pages/api/projects.ts (41-49) on the content of a file.
ApiParseCsv(content) ==
  LET lines == Split(content, Newline)
  IN  [i \in 1..Len(lines) |-> MatchFields(lines[i], 1)]

IsCompleted(m) ==
  m.outputs_approved /\ m.success_criteria_approved /\ m.evidence_approved

RECURSIVE SumLen(_)
SumLen(ss) == IF ss = <<>> THEN 0 ELSE Len(Head(ss)) + SumLen(Tail(ss))

\* The figures of the completion message (sync-projects.js 615-632).
SuccessMessage(projects, collaborators) ==
  [kind |-> "success",
   totalProjects |-> Len(projects),
   completedMilestones |->
     SumLen([i \in 1..Len(projects) |-> SelectSeq(projects[i].milestones, IsCompleted)]),
   totalMilestones |-> SumLen([i \in 1..Len(projects) |-> projects[i].milestones]),
   totalCollaborators |-> Len(collaborators)]

FailureMessage ==
  [kind |-> "failure", totalProjects |-> 0, completedMilestones |-> 0,
   totalMilestones |-> 0, totalCollaborators |-> 0]

(***************************************************************************)
(* State.                                                                  *)
(***************************************************************************)
VARIABLES
  entry,                  \* the function that was called
  arg,                    \* its argument
  projectsConfig,         \* src/config/projects.json
  backend,                \* the proposals and the snapshots of the backend
  pc,                     \* the statement the run is at
  idx,                    \* main: position of the loop in projectIds
  proposal, snapshots, transactions, processedMilestones,  \* processProject
  allMilestones, allTransactions, allProposals, allCollaborators,
  processedProjects,
  adaUsdRate, globalFinancialsForSheet,
  wpos,                   \* main: position in the table writes
  initialized,            \* CsvService.initialized
  files,                  \* data/<table>.csv
  writes,                 \* the updateCsv calls made, in order
  notifications,          \* the sendDiscordNotification calls made, in order
  exitCode,               \* "none" while running, then "0" or "1"
  calls,                  \* the external requests made, in order
  errorLog,               \* the failures main logged at the loop boundary
  result                  \* the outcome of a direct call

static == <<entry, arg, projectsConfig, backend>>
locals == <<proposal, snapshots, transactions, processedMilestones>>
accum == <<allMilestones, allTransactions, allProposals, allCollaborators,
           processedProjects>>
rollup == <<adaUsdRate, globalFinancialsForSheet>>
store == <<wpos, initialized, files, writes>>
outcome == <<notifications, exitCode>>
vars == <<static, pc, idx, locals, accum, rollup, store, outcome, calls, errorLog,
          result>>

projectIds == [i \in 1..Len(projectsConfig.projects) |->
                 projectsConfig.projects[i].project_id]

\* The argument of the running processProject.
projectId == IF entry = "main" THEN projectIds[idx] ELSE arg

\* projectsConfig.projects.find(p => p.project_id === id): its position, 0
\* when there is none.
FindProject(id) ==
  IF \E i \in 1..Len(projectsConfig.projects) :
       projectsConfig.projects[i].project_id = id
  THEN CHOOSE i \in 1..Len(projectsConfig.projects) :
         /\ projectsConfig.projects[i].project_id = id
         /\ \A j \in 1..(i - 1) : projectsConfig.projects[j].project_id # id
  ELSE 0

projectConfig == projectsConfig.projects[FindProject(projectId)]

\* An external request and how it ended: "data" or "error" for the requests
\* of processProject and of the ticker, "answered" for the others, whose
\* reply is not kept.
Call(kind, target, reply) == [kind |-> kind, target |-> target, reply |-> reply]

Pending == [status |-> "pending", value |-> "none"]

InitRun ==
  /\ idx = 0
  /\ proposal = NoProposal
  /\ snapshots = <<>>
  /\ transactions = <<>>
  /\ processedMilestones = <<>>
  /\ allMilestones = <<>>
  /\ allTransactions = <<>>
  /\ allProposals = <<>>
  /\ allCollaborators = <<>>
  /\ processedProjects = <<>>
  /\ adaUsdRate = R(0)
  /\ globalFinancialsForSheet = <<>>
  /\ wpos = 1
  /\ initialized = FALSE
  /\ files = [t \in TableNames |-> StaleTable]
  /\ writes = <<>>
  /\ notifications = <<>>
  /\ exitCode = "none"
  /\ calls = <<>>
  /\ errorLog = <<>>
  /\ result = Pending

\* node scripts/sync-projects.js
Init ==
  /\ entry = "main" /\ arg = 0 /\ pc = "start"
  /\ projectsConfig \in [projects : ProjectLists, organizations : OrganizationLists]
  /\ backend = [proposals |-> [id \in ProjectIds |-> ProposalRow(id)],
                snapshots |-> [id \in ProjectIds |-> SnapshotRows(id)]]
  /\ InitRun

\* The proposals the backend may hold for project 1, and the snapshots it
\* may hold for them: any milestones of the proposal, in increasing order.
Budgets == (0..MaxBudget) \cup {10, 120000}

ProposalRows ==
  {[project_id |-> 1, title |-> "P1", budget |-> b, funds_distributed |-> 0,
    milestones_qty |-> n] : b \in Budgets, n \in 0..MaxMilestones}

Snapshot(m) == [milestone |-> m, som_signoff_count |-> 1, poa_signoff_count |-> 0]

RECURSIVE SnapshotsOf(_, _)
SnapshotsOf(milestones, from) ==
  IF milestones = {} THEN <<>>
  ELSE IF from \in milestones
       THEN <<Snapshot(from)>> \o SnapshotsOf(milestones \ {from}, from + 1)
       ELSE SnapshotsOf(milestones, from + 1)

\* A caller of the exported processProject, with a configuration of at most
\* one project.
InitProcessProject ==
  /\ entry = "processProject" /\ arg \in ProjectIds /\ pc = "pp_config"
  /\ projectsConfig \in
       [projects : {<<>>} \cup {<<ProjectEntry(id)>> : id \in ProjectIds},
        organizations : {<<>>}]
  /\ \E row \in ProposalRows, ms \in SUBSET (1..MaxMilestones) :
       /\ ms \subseteq 1..row.milestones_qty
       /\ backend =
            [proposals |-> [id \in ProjectIds |-> IF id = 1 THEN row ELSE ProposalRow(id)],
             snapshots |-> [id \in ProjectIds |->
                              IF id = 1 THEN SnapshotsOf(ms, 1) ELSE SnapshotRows(id)]]
  /\ InitRun

(***************************************************************************)
(* main: the project loop (sync-projects.js 460-492).                      *)
(***************************************************************************)
ClearLocals ==
  /\ proposal' = NoProposal
  /\ snapshots' = <<>>
  /\ transactions' = <<>>
  /\ processedMilestones' = <<>>

\* The for loop moves to the next project, or main moves past the loop.
AfterProject ==
  IF idx < Len(projectIds)
  THEN pc' = "pp_config" /\ idx' = idx + 1
  ELSE pc' = "rate" /\ idx' = idx

\* Mutant of MainStart: the empty configuration is not rejected.
MainStartNoCheck ==
  /\ entry = "main" /\ pc = "start"
  /\ IF Len(projectIds) = 0
     THEN pc' = "rate" /\ idx' = idx
     ELSE pc' = "pp_config" /\ idx' = 1
  /\ UNCHANGED <<static, locals, accum, rollup, store, outcome, calls, errorLog,
                 result>>

MainStart ==
  /\ entry = "main" /\ pc = "start"
  /\ IF Len(projectIds) = 0
     THEN pc' = "exited" /\ exitCode' = "1" /\ idx' = idx
     ELSE pc' = "pp_config" /\ exitCode' = exitCode /\ idx' = 1
  /\ UNCHANGED <<static, locals, accum, rollup, store, notifications, calls,
                 errorLog, result>>

\* Mutant of Throw: the catch is around the loop, so the first failure ends it.
ThrowAborts(error) ==
  /\ ClearLocals
  /\ IF entry = "main"
     THEN /\ errorLog' = Append(errorLog, [project |-> projectId, error |-> error])
          /\ pc' = "rate" /\ idx' = idx
          /\ UNCHANGED <<accum, result>>
     ELSE /\ pc' = "done"
          /\ result' = [status |-> "rejected", value |-> error]
          /\ UNCHANGED <<idx, accum, errorLog>>

\* processProject throws: main's catch logs and goes on; a direct caller
\* gets the rejection.
Throw(error) ==
  /\ ClearLocals
  /\ IF entry = "main"
     THEN /\ errorLog' = Append(errorLog, [project |-> projectId, error |-> error])
          /\ AfterProject
          /\ UNCHANGED <<accum, result>>
     ELSE /\ pc' = "done"
          /\ result' = [status |-> "rejected", value |-> error]
          /\ UNCHANGED <<idx, accum, errorLog>>

\* processProject returns: main accumulates the rows; a direct caller gets
\* the value.
Return(projectData) ==
  /\ ClearLocals
  /\ IF entry = "main"
     THEN /\ allMilestones' = allMilestones \o projectData.milestonesForSheet
          /\ allTransactions' = allTransactions \o projectData.transactionsForSheet
          /\ allProposals' = allProposals \o projectData.proposalForSheet
          /\ allCollaborators' = allCollaborators \o projectData.collaboratorsForSheet
          /\ processedProjects' = Append(processedProjects, projectData)
          /\ AfterProject
          /\ UNCHANGED <<errorLog, result>>
     ELSE /\ pc' = "done"
          /\ result' = [status |-> "resolved", value |-> projectData]
          /\ UNCHANGED <<idx, accum, errorLog>>

(***************************************************************************)
(* processProject (sync-projects.js 281-433).                              *)
(***************************************************************************)
\* Mutant of ResolveConfig: the wallet is not checked.
ResolveConfigNoWalletCheck ==
  /\ pc = "pp_config"
  /\ IF FindProject(projectId) = 0 THEN Throw("not in configuration")
     ELSE /\ pc' = "pp_proposal"
          /\ UNCHANGED <<idx, locals, accum, errorLog, result>>
  /\ UNCHANGED <<static, rollup, store, outcome, calls>>

ResolveConfig ==
  /\ pc = "pp_config"
  /\ IF FindProject(projectId) = 0 THEN Throw("not in configuration")
     ELSE IF projectConfig.wallet = "" THEN Throw("no wallet address")
     ELSE /\ pc' = "pp_proposal"
          /\ UNCHANGED <<idx, locals, accum, errorLog, result>>
  /\ UNCHANGED <<static, rollup, store, outcome, calls>>

\* getProposalDetails: .single() reports an error unless exactly one row
\* matches, and any error yields null.
GetProposalDetails ==
  /\ pc = "pp_proposal"
  /\ \E error \in BOOLEAN :
       /\ backend.proposals[projectId] = NoProposal => error
       /\ calls' = Append(calls, Call("proposals", projectId,
                                      IF error THEN "error" ELSE "data"))
       /\ IF error THEN Throw("no proposal found")
          ELSE /\ proposal' = backend.proposals[projectId]
               /\ pc' = "pp_snapshots"
               /\ UNCHANGED <<idx, snapshots, transactions, processedMilestones,
                              accum, errorLog, result>>
  /\ UNCHANGED <<static, rollup, store, outcome>>

FetchSnapshotData ==
  /\ pc = "pp_snapshots"
  /\ \E ok \in BOOLEAN :
       /\ calls' = Append(calls, Call("snapshots", projectId,
                                      IF ok THEN "data" ELSE "error"))
       /\ snapshots' = IF ok THEN backend.snapshots[projectId] ELSE <<>>
  /\ pc' = "pp_transactions"
  /\ UNCHANGED <<static, idx, proposal, transactions, processedMilestones, accum,
                 rollup, store, outcome, errorLog, result>>

ProcessWalletTransactions ==
  /\ pc = "pp_transactions"
  /\ \E ok \in BOOLEAN :
       /\ calls' = Append(calls, Call("indexer", projectId,
                                      IF ok THEN "data" ELSE "error"))
       /\ transactions' =
            processWalletTransactions(projectConfig.wallet, projectConfig.dateRanges, ok)
  /\ pc' = "pp_milestones"
  /\ UNCHANGED <<static, idx, proposal, snapshots, processedMilestones, accum,
                 rollup, store, outcome, errorLog, result>>

\* The else branch of step 5: no snapshot, every milestone is synthesized.
SynthesizeMilestones ==
  /\ pc = "pp_milestones"
  /\ Len(snapshots) = 0
  /\ processedMilestones' = SynthesizedMilestones(proposal, projectId)
  /\ pc' = "pp_finish"
  /\ UNCHANGED <<static, idx, proposal, snapshots, transactions, accum, rollup,
                 store, outcome, calls, errorLog, result>>

\* Mutant of FetchMilestoneData: a snapshot without review gets no entry.
FetchMilestoneDataSkipsUnreviewed ==
  /\ pc = "pp_milestones"
  /\ Len(snapshots) > 0
  /\ LET snapshot == Head(snapshots)
         data == SelectPoa(SomRows(projectId, snapshot.milestone))
     IN  \E reply \in {"id error", "query error", "data"} :
           /\ calls' = calls \o
                (IF reply = "id error"
                 THEN <<Call("proposal id", projectId, "error")>>
                 ELSE <<Call("proposal id", projectId, "data"),
                        Call("reviews", projectId,
                             IF reply = "data" THEN "data" ELSE "error")>>)
           /\ IF reply # "data" THEN Throw("milestone data")
              ELSE /\ processedMilestones' =
                        IF data = <<>> THEN processedMilestones
                        ELSE Append(processedMilestones,
                                    SnapshotMilestone(proposal, projectId, snapshot,
                                                      data))
                   /\ snapshots' = Tail(snapshots)
                   /\ pc' = IF Len(snapshots) = 1 THEN "pp_finish" ELSE "pp_milestones"
                   /\ UNCHANGED <<idx, proposal, transactions, accum, errorLog, result>>
  /\ UNCHANGED <<static, rollup, store, outcome>>

\* One turn of the snapshot loop: fetchMilestoneData asks for the proposal
\* id, then for the review, and throws when either query reports an error.
FetchMilestoneData ==
  /\ pc = "pp_milestones"
  /\ Len(processedMilestones) < Len(snapshots)
  /\ LET snapshot == snapshots[Len(processedMilestones) + 1]
     IN  \E reply \in {"id error", "query error", "data"} :
           /\ calls' = calls \o
                (IF reply = "id error"
                 THEN <<Call("proposal id", projectId, "error")>>
                 ELSE <<Call("proposal id", projectId, "data"),
                        Call("reviews", projectId,
                             IF reply = "data" THEN "data" ELSE "error")>>)
           /\ IF reply # "data" THEN Throw("milestone data")
              ELSE /\ processedMilestones' =
                        Append(processedMilestones,
                               SnapshotMilestone(proposal, projectId, snapshot,
                                 SelectPoa(SomRows(projectId, snapshot.milestone))))
                   /\ pc' = IF Len(processedMilestones) + 1 = Len(snapshots)
                            THEN "pp_finish" ELSE "pp_milestones"
                   /\ UNCHANGED <<idx, proposal, snapshots, transactions, accum,
                                  errorLog, result>>
  /\ UNCHANGED <<static, rollup, store, outcome>>

ReturnProject ==
  /\ pc = "pp_finish"
  /\ Return(ProjectData(projectId, projectConfig, proposal, transactions,
                        processedMilestones))
  /\ UNCHANGED <<static, rollup, store, outcome, calls>>

(***************************************************************************)
(* main: the global rollup (sync-projects.js 494-537).                     *)
(***************************************************************************)
organizations == projectsConfig.organizations

\* Mutant of FetchAdaExchangeRate: a failed lookup is thrown to the catch of
\* main.
FetchAdaExchangeRateThrows ==
  /\ pc = "rate"
  /\ \E reply \in {"price", "no price", "error"} :
       /\ calls' = Append(calls, Call("ticker", "ADAUSD",
                                      IF reply = "price" THEN "data" ELSE "error"))
       /\ adaUsdRate' = IF reply = "price" THEN TickerPrice ELSE R(0)
       /\ pc' = IF reply # "price" THEN "notify failure"
                ELSE IF Len(organizations) = 0 THEN "write" ELSE "orgs"
  /\ UNCHANGED <<static, idx, locals, accum, globalFinancialsForSheet, store,
                 outcome, errorLog, result>>

\* fetchAdaExchangeRate: 0 unless the ticker answers with a price. The call
\* is logged as an error when the request fails and when the answer has no
\* price.
FetchAdaExchangeRate ==
  /\ pc = "rate"
  /\ \E reply \in {"price", "no price", "error"} :
       /\ calls' = Append(calls, Call("ticker", "ADAUSD",
                                      IF reply = "price" THEN "data" ELSE "error"))
       /\ adaUsdRate' = IF reply = "price" THEN TickerPrice ELSE R(0)
  /\ pc' = IF Len(organizations) = 0 THEN "write" ELSE "orgs"
  /\ UNCHANGED <<static, idx, locals, accum, globalFinancialsForSheet, store,
                 outcome, errorLog, result>>

\* One turn of the organization loop: fetchWalletBalance (0 without wallet,
\* on an unexpected answer and on an error), then the row.
FetchWalletBalance ==
  /\ pc = "orgs"
  /\ LET org == organizations[Len(globalFinancialsForSheet) + 1]
     IN  \E reply \in {"lovelaces", "unexpected", "error"} :
           /\ org.wallet = "" => reply = "unexpected"
           /\ calls' = IF org.wallet = "" THEN calls
                       ELSE Append(calls, Call("balance", org.wallet, "answered"))
           /\ LET walletBalanceAda ==
                    IF org.wallet # "" /\ reply = "lovelaces"
                    THEN Frac(WalletLovelaces(org.wallet), LovelacePerAda)
                    ELSE R(0)
              IN  globalFinancialsForSheet' =
                    Append(globalFinancialsForSheet,
                           GlobalFinancialsRow(org, processedProjects,
                                               walletBalanceAda, adaUsdRate))
  /\ pc' = IF Len(globalFinancialsForSheet) + 1 = Len(organizations)
           THEN "write" ELSE "orgs"
  /\ UNCHANGED <<static, idx, locals, accum, adaUsdRate, store, outcome, errorLog,
                 result>>

(***************************************************************************)
(* main: the table writes (sync-projects.js 539-612) and                   *)
(* CsvService.updateCsv (csvService.js 67-90).                             *)
(***************************************************************************)
RowsFor(table) ==
  CASE table = "milestones" -> allMilestones
    [] table = "transactions" -> allTransactions
    [] table = "global_financials" -> globalFinancialsForSheet
    [] table = "proposals" -> allProposals
    [] table = "collaborators" -> allCollaborators

AfterTable ==
  IF wpos < Len(TableOrder)
  THEN pc' = "write" /\ wpos' = wpos + 1
  ELSE pc' = "notify success" /\ wpos' = wpos

\* Mutant of SkipTable: a table without rows is written with its header only.
SkipTableTruncates ==
  /\ pc = "write"
  /\ Len(RowsFor(TableOrder[wpos])) = 0
  /\ files' = [files EXCEPT ![TableOrder[wpos]] =
                                Table(Headers(TableOrder[wpos]), <<>>)]
  /\ AfterTable
  /\ UNCHANGED <<static, idx, locals, accum, rollup, initialized, writes,
                 outcome, calls, errorLog, result>>

\* A table without rows is not written.
SkipTable ==
  /\ pc = "write"
  /\ Len(RowsFor(TableOrder[wpos])) = 0
  /\ AfterTable
  /\ UNCHANGED <<static, idx, locals, accum, rollup, initialized, files, writes,
                 outcome, calls, errorLog, result>>

\* Mutant of UpdateCsv: a failed write is logged and main goes on with the
\* next table.
UpdateCsvSwallowsError ==
  /\ pc = "write"
  /\ Len(RowsFor(TableOrder[wpos])) > 0
  /\ LET table == TableOrder[wpos]
     IN  \E reply \in {"written", "mkdir error", "write error"} :
              /\ reply = "mkdir error" => ~initialized
              /\ writes' = Append(writes, [table |-> table, reply |-> reply])
              /\ initialized' = (initialized \/ reply # "mkdir error")
              /\ files' =
                   IF reply = "written"
                   THEN [files EXCEPT ![table] = Table(Headers(table), RowsFor(table))]
                   ELSE files
              /\ AfterTable
  /\ UNCHANGED <<static, idx, locals, accum, rollup, outcome, calls, errorLog,
                 result>>

\* updateCsv: initialize, then one writeFileSync of header and rows. Either
\* may throw, and the catch of main takes over.
UpdateCsv ==
  /\ pc = "write"
  /\ Len(RowsFor(TableOrder[wpos])) > 0
  /\ LET table == TableOrder[wpos]
     IN  \E reply \in {"written", "mkdir error", "write error"} :
              /\ reply = "mkdir error" => ~initialized
              /\ writes' = Append(writes, [table |-> table, reply |-> reply])
              /\ initialized' = (initialized \/ reply # "mkdir error")
              /\ files' =
                   IF reply = "written"
                   THEN [files EXCEPT ![table] = Table(Headers(table), RowsFor(table))]
                   ELSE files
              /\ IF reply = "written" THEN AfterTable
                 ELSE pc' = "notify failure" /\ wpos' = wpos
  /\ UNCHANGED <<static, idx, locals, accum, rollup, outcome, calls, errorLog,
                 result>>

(***************************************************************************)
(* sendDiscordNotification (sync-projects.js 438-455) and the end of main. *)
(***************************************************************************)
\* Nothing is sent without webhook URL; a failed send is logged only.
SendDiscordNotification(message) ==
  \E reply \in {"no url", "sent", "send error"} :
    /\ notifications' = Append(notifications, [message |-> message, reply |-> reply])
    /\ calls' = IF reply = "no url" THEN calls
                ELSE Append(calls, Call("webhook", message.kind, "answered"))

\* Mutant of NotifyFailure: after the failure notification main goes on to
\* the success notification.
NotifyFailureFallsThrough ==
  /\ pc = "notify failure"
  /\ SendDiscordNotification(FailureMessage)
  /\ pc' = "notify success"
  /\ exitCode' = exitCode
  /\ UNCHANGED <<static, idx, locals, accum, rollup, store, errorLog, result>>

NotifyFailure ==
  /\ pc = "notify failure"
  /\ SendDiscordNotification(FailureMessage)
  /\ pc' = "exited"
  /\ exitCode' = "1"
  /\ UNCHANGED <<static, idx, locals, accum, rollup, store, errorLog, result>>

\* Mutant of NotifySuccess: a run with a failed project ends with status 1.
NotifySuccessFailsOnErrors ==
  /\ pc = "notify success"
  /\ SendDiscordNotification(SuccessMessage(processedProjects, allCollaborators))
  /\ pc' = "exited"
  /\ exitCode' = IF errorLog = <<>> THEN "0" ELSE "1"
  /\ UNCHANGED <<static, idx, locals, accum, rollup, store, errorLog, result>>

\* Mutant of NotifySuccess: a failed send is thrown out of main.
NotifySuccessEscalates ==
  /\ pc = "notify success"
  /\ SendDiscordNotification(SuccessMessage(processedProjects, allCollaborators))
  /\ pc' = "exited"
  /\ exitCode' = IF notifications'[Len(notifications')].reply = "send error"
                 THEN "1" ELSE "0"
  /\ UNCHANGED <<static, idx, locals, accum, rollup, store, errorLog, result>>

NotifySuccess ==
  /\ pc = "notify success"
  /\ SendDiscordNotification(SuccessMessage(processedProjects, allCollaborators))
  /\ pc' = "exited"
  /\ exitCode' = "0"
  /\ UNCHANGED <<static, idx, locals, accum, rollup, store, errorLog, result>>

Next ==
  \/ MainStart
  \/ ResolveConfig
  \/ GetProposalDetails
  \/ FetchSnapshotData
  \/ ProcessWalletTransactions
  \/ SynthesizeMilestones
  \/ FetchMilestoneData
  \/ ReturnProject
  \/ FetchAdaExchangeRate
  \/ FetchWalletBalance
  \/ SkipTable
  \/ UpdateCsv
  \/ NotifyFailure
  \/ NotifySuccess

Spec == Init /\ [][Next]_vars

NextProcessProject ==
  \/ ResolveConfig
  \/ GetProposalDetails
  \/ FetchSnapshotData
  \/ ProcessWalletTransactions
  \/ SynthesizeMilestones
  \/ FetchMilestoneData
  \/ ReturnProject

SpecProcessProject == InitProcessProject /\ [][NextProcessProject]_vars

(***************************************************************************)
(* calculateMonthlyBudget on its own: a call with any budget, date range   *)
(* and collaborator list of the bounded sets.                              *)
(***************************************************************************)
DateRanges ==
  {[start |-> s, end |-> e] :
     s \in {NoDate, Date(2025, 1)},
     e \in {NoDate, Date(2024, 11), Date(2025, 1), Date(2026, 1)}}

Collaborators ==
  {Amount("alice", a) : a \in (0..(MaxBudget + 1)) \cup {24000}}
    \cup {Allocation("carol", 1, 2)}

InitCalculateMonthlyBudget ==
  /\ entry = "calculateMonthlyBudget" /\ pc = "call"
  /\ arg \in [proposal : {[budget |-> b] : b \in Budgets},
              projectConfig : [dateRanges : DateRanges,
                               collaborators : SeqsUpTo(Collaborators, MaxCollabs)]]
  /\ projectsConfig = [projects |-> <<>>, organizations |-> <<>>]
  /\ backend = [proposals |-> [id \in ProjectIds |-> ProposalRow(id)],
                snapshots |-> [id \in ProjectIds |-> SnapshotRows(id)]]
  /\ InitRun

CalculateMonthlyBudget ==
  /\ entry = "calculateMonthlyBudget" /\ pc = "call"
  /\ result' = [status |-> "resolved",
                value |-> calculateMonthlyBudget(arg.proposal, arg.projectConfig)]
  /\ pc' = "done"
  /\ UNCHANGED <<static, idx, locals, accum, rollup, store, outcome, calls, errorLog>>

NextCalculateMonthlyBudget == CalculateMonthlyBudget

SpecCalculateMonthlyBudget ==
  InitCalculateMonthlyBudget /\ [][NextCalculateMonthlyBudget]_vars

(***************************************************************************)
(* The global rollup of main for any organizations: a run whose only       *)
(* project has no wallet, so that nothing but the rollup varies.           *)
(***************************************************************************)
MonthlyBudgets == {0 - 1, 0, 3, 4}

Organizations ==
  {Org("dao", real, max, wallet) :
     real \in MonthlyBudgets, max \in MonthlyBudgets, wallet \in {"", "orgw", "orgv"}}

InitRollup ==
  /\ entry = "main" /\ arg = 0 /\ pc = "start"
  /\ projectsConfig \in [projects : {<<ProjectEntry(3)>>},
                         organizations : SeqsUpTo(Organizations, MaxOrgs)]
  /\ backend = [proposals |-> [id \in ProjectIds |-> ProposalRow(id)],
                snapshots |-> [id \in ProjectIds |-> SnapshotRows(id)]]
  /\ InitRun

NextRollup ==
  \/ MainStart
  \/ ResolveConfig
  \/ FetchAdaExchangeRate
  \/ FetchWalletBalance
  \/ SkipTable
  \/ UpdateCsv
  \/ NotifyFailure
  \/ NotifySuccess

SpecRollup == InitRollup /\ [][NextRollup]_vars

(***************************************************************************)
(* The sums of main in the arithmetic of the source: a Number is an IEEE   *)
(* 754 binary64. A positive double is bits * 2^exp, bits being the 53 bits *)
(* of its significand, the lowest first.                                   *)
(***************************************************************************)
Precision == 53

Zero == [exp |-> 0, bits |-> [i \in 1..Precision |-> 0]]

\* The double 1.h1h2...h13 * 2^e (hexadecimal digits of the fraction).
Double(e, hexDigits) ==
  [exp |-> e - (Precision - 1),
   bits |-> [i \in 1..Precision |->
               IF i = Precision THEN 1
               ELSE LET k == (Precision - 1) - i
                    IN  (hexDigits[(k \div 4) + 1] \div (2 ^ (3 - (k % 4)))) % 2]]

\* The carry into position i of the sum of the bit vectors a and b.
CarryInto(a, b, i) ==
  \E j \in 1..(i - 1) :
    /\ a[j] = 1 /\ b[j] = 1
    /\ \A k \in (j + 1)..(i - 1) : a[k] = 1 \/ b[k] = 1

BitSum(a, b, width) ==
  [i \in 1..width |-> (a[i] + b[i] + (IF CarryInto(a, b, i) THEN 1 ELSE 0)) % 2]

\* The significand kept plus one unit in the last place.
NextUp(kept, exp) ==
  IF \A i \in 1..Precision : kept[i] = 1
  THEN [exp |-> exp + 1, bits |-> [i \in 1..Precision |-> IF i = Precision THEN 1 ELSE 0]]
  ELSE [exp |-> exp,
        bits |-> [i \in 1..Precision |->
                    IF \A k \in 1..(i - 1) : kept[k] = 1 THEN 1 - kept[i] ELSE kept[i]]]

\* The exact sum of width bits, in units of 2^exp, rounded to the nearest
\* double, a tie to the even one.
RoundSum(sum, width, exp) ==
  LET top == CHOOSE i \in 1..width : sum[i] = 1 /\ \A k \in (i + 1)..width : sum[k] = 0
      drop == top - Precision
      kept == [i \in 1..Precision |-> sum[i + drop]]
      guard == drop >= 1 /\ sum[drop] = 1
      sticky == \E i \in 1..(drop - 1) : sum[i] = 1
  IN  IF guard /\ (sticky \/ kept[1] = 1) THEN NextUp(kept, exp + drop)
      ELSE [exp |-> exp + drop, bits |-> kept]

\* hi + lo for positive doubles with hi.exp >= lo.exp, at most Precision + 1
\* apart.
AddAligned(hi, lo) ==
  LET shift == hi.exp - lo.exp
      width == Precision + shift + 1
      a == [i \in 1..width |->
              IF i > shift /\ i - shift <= Precision THEN hi.bits[i - shift] ELSE 0]
      b == [i \in 1..width |-> IF i <= Precision THEN lo.bits[i] ELSE 0]
  IN  RoundSum(BitSum(a, b, width), width, lo.exp)

\* x + y of two doubles that are positive or zero.
DoubleAdd(x, y) ==
  IF x = Zero THEN y
  ELSE IF y = Zero THEN x
  ELSE IF x.exp >= y.exp
       THEN (IF x.exp - y.exp > Precision + 1 THEN x ELSE AddAligned(x, y))
       ELSE (IF y.exp - x.exp > Precision + 1 THEN y ELSE AddAligned(y, x))

\* amounts.reduce((sum, amount) => sum + amount, 0)
RECURSIVE DoubleSum(_, _)
DoubleSum(amounts, sum) ==
  IF amounts = <<>> THEN sum
  ELSE DoubleSum(Tail(amounts), DoubleAdd(sum, Head(amounts)))

\* parseFloat(value) / 1000000 for the values of the pool below: the
\* doubles nearest to 0.1, 0.2 and 0.3.
AdaOf(lovelaces) ==
  CASE lovelaces = 100000 -> Double(0 - 4, <<9, 9, 9, 9, 9, 9, 9, 9, 9, 9, 9, 9, 10>>)
    [] lovelaces = 200000 -> Double(0 - 3, <<9, 9, 9, 9, 9, 9, 9, 9, 9, 9, 9, 9, 10>>)
    [] lovelaces = 300000 -> Double(0 - 2, <<3, 3, 3, 3, 3, 3, 3, 3, 3, 3, 3, 3, 3>>)

\* Processed projects: the budget and the amounts of the transactions.
Processed(budget, lovelaces) ==
  [financials |-> [totalBudget |-> budget],
   transactions |-> [i \in 1..Len(lovelaces) |-> [amount |-> AdaOf(lovelaces[i])]]]

ProcessedPool ==
  {Processed(10, <<100000>>), Processed(10, <<200000>>), Processed(9, <<300000>>),
   Processed(3, <<>>)}

\* const totalBudgetAll, totalReceivedAll of main (495-498); the budgets are
\* small integers, which doubles add exactly.
RECURSIVE GlobalTotals(_, _)
GlobalTotals(projects, sums) ==
  IF projects = <<>> THEN sums
  ELSE GlobalTotals(
         Tail(projects),
         [totalBudgetAll |-> sums.totalBudgetAll + Head(projects).financials.totalBudget,
          totalReceivedAll |->
            DoubleAdd(sums.totalReceivedAll,
                      DoubleSum([i \in 1..Len(Head(projects).transactions) |->
                                   Head(projects).transactions[i].amount], Zero))])

SameProjects(first, second) ==
  /\ Len(first) = Len(second)
  /\ {first[i] : i \in 1..Len(first)} = {second[i] : i \in 1..Len(second)}

\* Two runs of main over the same processed projects, in two orders.
InitTotals ==
  /\ entry = "totals" /\ pc = "totals"
  /\ \E first, second \in {o \in SeqsUpTo(ProcessedPool, MaxSummands) : Injective(o)} :
       /\ SameProjects(first, second)
       /\ arg = [first |-> first, second |-> second]
  /\ projectsConfig = [projects |-> <<>>, organizations |-> <<>>]
  /\ backend = [proposals |-> [id \in ProjectIds |-> ProposalRow(id)],
                snapshots |-> [id \in ProjectIds |-> SnapshotRows(id)]]
  /\ InitRun

CalculateGlobalTotals ==
  /\ entry = "totals" /\ pc = "totals"
  /\ LET zero == [totalBudgetAll |-> 0, totalReceivedAll |-> Zero]
     IN  result' = [status |-> "resolved",
                    value |-> [first |-> GlobalTotals(arg.first, zero),
                               second |-> GlobalTotals(arg.second, zero)]]
  /\ pc' = "done"
  /\ UNCHANGED <<static, idx, locals, accum, rollup, store, outcome, calls, errorLog>>

NextTotals == CalculateGlobalTotals

SpecTotals == InitTotals /\ [][NextTotals]_vars

(***************************************************************************)
(* fetchMilestoneData on its own: a call for which the review query        *)
(* returns at most one row (limit 1) with any variants.                    *)
(***************************************************************************)
Stamps == {1, 2}

PoaVariants ==
  {SignedPoa(approved, stamps) :
     approved \in BOOLEAN, stamps \in SeqsUpTo(Stamps, Cardinality(Stamps))}

SomRow(poas) ==
  [month |-> 3, cost |-> 5, completion |-> 100,
   som_reviews |-> <<[outputs_approves |-> TRUE, success_criteria_approves |-> TRUE,
                      evidence_approves |-> TRUE]>>,
   poas |-> poas]

InitFetchMilestoneData ==
  /\ entry = "fetchMilestoneData" /\ pc = "query"
  /\ arg \in {<<>>} \cup {<<SomRow(poas)>> : poas \in SeqsUpTo(PoaVariants, MaxPoas)}
  /\ projectsConfig = [projects |-> <<>>, organizations |-> <<>>]
  /\ backend = [proposals |-> [id \in ProjectIds |-> ProposalRow(id)],
                snapshots |-> [id \in ProjectIds |-> SnapshotRows(id)]]
  /\ InitRun

\* fetchMilestoneData(projectId, milestone), called directly; arg is what
\* the review query has to return.
FetchMilestoneDataCall ==
  /\ entry = "fetchMilestoneData" /\ pc = "query"
  /\ \E reply \in {"id error", "query error", "data"} :
       /\ calls' = calls \o
            (IF reply = "id error"
             THEN <<Call("proposal id", 1, "error")>>
             ELSE <<Call("proposal id", 1, "data"),
                    Call("reviews", 1, IF reply = "data" THEN "data" ELSE "error")>>)
       /\ result' = IF reply = "data"
                    THEN [status |-> "resolved", value |-> SelectPoa(arg)]
                    ELSE [status |-> "rejected", value |-> "milestone data"]
  /\ pc' = "done"
  /\ UNCHANGED <<static, idx, locals, accum, rollup, store, outcome, errorLog>>

NextFetchMilestoneData == FetchMilestoneDataCall

SpecFetchMilestoneData == InitFetchMilestoneData /\ [][NextFetchMilestoneData]_vars

(***************************************************************************)
(* The tabular store on its own: updateCsv of a table with a header, then  *)
(* a read of the file by one of the two readCsv.                           *)
(***************************************************************************)
\* The cells: empty, plain, and with a comma, a quote, a newline, a space.
Cells ==
  {<<>>, <<"a">>, <<"a", Comma, "b">>, <<"a", Quote, "b">>, <<"a", Newline, "b">>,
   <<"a", Space, "b">>}

CsvHeader == <<<<"h">>, <<"k">>>>

CsvRows == SeqsUpTo([1..Len(CsvHeader) -> Cells], MaxRows)

InitCsv ==
  /\ entry = "updateCsv" /\ pc = "csv_write"
  /\ arg \in [fileName : {"proposals"}, values : CsvRows, headers : {CsvHeader}]
  /\ projectsConfig = [projects |-> <<>>, organizations |-> <<>>]
  /\ backend = [proposals |-> [id \in ProjectIds |-> ProposalRow(id)],
                snapshots |-> [id \in ProjectIds |-> SnapshotRows(id)]]
  /\ InitRun

\* csvService.updateCsv(fileName, values, headers), called directly.
UpdateCsvCall ==
  /\ entry = "updateCsv" /\ pc = "csv_write"
  /\ \E reply \in {"written", "mkdir error", "write error"} :
       /\ writes' = Append(writes, [table |-> arg.fileName, reply |-> reply])
       /\ initialized' = (reply # "mkdir error")
       /\ IF reply = "written"
          THEN /\ files' = [files EXCEPT ![arg.fileName] = Table(arg.headers, arg.values)]
               /\ pc' = "csv_read"
               /\ result' = result
          ELSE /\ files' = files
               /\ pc' = "done"
               /\ result' = [status |-> "rejected", value |-> reply]
  /\ UNCHANGED <<static, idx, locals, accum, rollup, wpos, outcome, calls, errorLog>>

\* csvService.readCsv(fileName) of scripts/csvService.js.
ReadCsv ==
  /\ entry = "updateCsv" /\ pc = "csv_read"
  /\ result' = [status |-> "resolved",
                value |-> [reader |-> "csvService",
                           rows |-> ParseCsv(CsvData(files[arg.fileName]))]]
  /\ pc' = "done"
  /\ UNCHANGED <<static, idx, locals, accum, rollup, store, outcome, calls, errorLog>>

\* csvService.readCsv(fileName) of pages/api/projects.ts.
ApiReadCsv ==
  /\ entry = "updateCsv" /\ pc = "csv_read"
  /\ result' = [status |-> "resolved",
                value |-> [reader |-> "api",
                           rows |-> ApiParseCsv(CsvData(files[arg.fileName]))]]
  /\ pc' = "done"
  /\ UNCHANGED <<static, idx, locals, accum, rollup, store, outcome, calls, errorLog>>

NextCsv == UpdateCsvCall \/ ReadCsv \/ ApiReadCsv

SpecCsv == InitCsv /\ [][NextCsv]_vars

(***************************************************************************)
(* The projects handler (pages/api/projects.ts 82-184) on the tables a     *)
(* sync run left.                                                          *)
(***************************************************************************)
\* String(cell) of a cell without comma, quote or newline: one symbol.
Str(cell) == <<ToString(cell)>>

StrRow(row) == [j \in 1..Len(row) |-> Str(row[j])]

\* The text of a table file.
FileContent(table) ==
  CsvData(Table(StrRow(table.header),
                [i \in 1..Len(table.rows) |-> StrRow(table.rows[i])]))

\* The file a name of the handler finds: the sync run writes the lower-case
\* names, which only a file system that ignores case matches. No file is
\* written for "Financials".
FileOf(fileName) ==
  CASE fileName = "Proposals" -> "proposals"
    [] fileName = "Milestones" -> "milestones"
    [] fileName = "Transactions" -> "transactions"
    [] OTHER -> "none"

\* csvService.readCsv(fileName) of the handler.
ApiRead(fileName, ignoresCase) ==
  IF ignoresCase /\ FileOf(fileName) \in TableNames
  THEN ApiParseCsv(FileContent(files[FileOf(fileName)]))
  ELSE <<>>

\* row[index] || ''
CellOr(row, index) == IF index <= Len(row) THEN row[index] ELSE <<>>

\* The last column with the header, 0 when there is none.
RECURSIVE LastColumn(_, _, _)
LastColumn(headers, header, k) ==
  IF k = 0 THEN 0
  ELSE IF headers[k] = header THEN k ELSE LastColumn(headers, header, k - 1)

\* The record of a row: project_id, then every header with its cell.
ToRecord(headers, row, project_id) ==
  [key \in {Str("project_id")} \cup {headers[k] : k \in 1..Len(headers)} |->
     IF LastColumn(headers, key, Len(headers)) = 0 THEN project_id
     ELSE CellOr(row, LastColumn(headers, key, Len(headers)))]

\* data.slice(1).filter(row => row[0] === project_id).map(...)
RelatedRecords(data, project_id) ==
  IF Len(data) = 0 THEN <<>>
  ELSE LET related == SelectSeq(Tail(data),
                                LAMBDA row : Len(row) > 0 /\ row[1] = project_id)
       IN  [i \in 1..Len(related) |-> ToRecord(data[1], related[i], project_id)]

\* projectWithDetails of a proposal record.
WithDetails(proposalRecord, ignoresCase) ==
  LET project_id == proposalRecord[Str("project_id")]
      financialsArray == RelatedRecords(ApiRead("Financials", ignoresCase), project_id)
  IN  [proposal |-> proposalRecord,
       milestones |-> RelatedRecords(ApiRead("Milestones", ignoresCase), project_id),
       transactions |-> RelatedRecords(ApiRead("Transactions", ignoresCase), project_id),
       financials |-> IF Len(financialsArray) > 0 THEN financialsArray[1]
                      ELSE [key \in {Str("project_id")} |-> project_id]]

Response(status, body) == [status |-> status, body |-> body]

\* The response of the handler to a request.
HandlerResponse(request, ignoresCase) ==
  LET proposalsData == ApiRead("Proposals", ignoresCase)
      proposals == [i \in 1..(Len(proposalsData) - 1) |->
                      ToRecord(proposalsData[1], proposalsData[i + 1], <<>>)]
      filteredProposals ==
        IF request.id # <<>>
        THEN SelectSeq(proposals, LAMBDA p : p[Str("project_id")] = request.id)
        ELSE proposals
      projectsWithDetails ==
        [i \in 1..Len(filteredProposals) |-> WithDetails(filteredProposals[i], ignoresCase)]
  IN  IF request.method # "GET" THEN Response(405, "Method not allowed")
      ELSE IF Len(proposalsData) = 0 THEN Response(404, "No project data found")
      ELSE IF request.id # <<>> /\ Len(filteredProposals) = 0
           THEN Response(404, "Project not found")
      ELSE Response(200, IF request.id # <<>> THEN projectsWithDetails[1]
                         ELSE projectsWithDetails)

\* What processProject returns for a project of the catalogue when the
\* snapshot service is down and the indexer answers.
SyncedProject(id) ==
  ProjectData(id, ProjectEntry(id), ProposalRow(id),
              processWalletTransactions(ProjectEntry(id).wallet,
                                        ProjectEntry(id).dateRanges, TRUE),
              SynthesizedMilestones(ProposalRow(id), id))

\* The rows main collects for a table from the projects ids, without
\* organizations.
SyncedRows(table, ids) ==
  CASE table = "milestones" ->
         Flatten([i \in 1..Len(ids) |-> SyncedProject(ids[i]).milestonesForSheet])
    [] table = "transactions" ->
         Flatten([i \in 1..Len(ids) |-> SyncedProject(ids[i]).transactionsForSheet])
    [] table = "proposals" ->
         Flatten([i \in 1..Len(ids) |-> SyncedProject(ids[i]).proposalForSheet])
    [] table = "collaborators" ->
         Flatten([i \in 1..Len(ids) |-> SyncedProject(ids[i]).collaboratorsForSheet])
    [] OTHER -> <<>>

\* The files a sync run that processed the projects ids leaves.
SyncedFiles(ids) ==
  [t \in TableNames |->
     IF Len(SyncedRows(t, ids)) > 0 THEN Table(Headers(t), SyncedRows(t, ids))
     ELSE StaleTable]

\* The projects of the catalogue that processProject resolves.
SyncableIds == {id \in ProjectIds : ProjectEntry(id).wallet # ""
                                    /\ ProposalRow(id) # NoProposal}

Requests ==
  [method : {"GET", "POST"}, id : {<<>>} \cup {Str(id) : id \in ProjectIds}]

InitApi ==
  /\ entry = "handler" /\ pc = "request"
  /\ arg \in Requests
  /\ projectsConfig = [projects |-> <<>>, organizations |-> <<>>]
  /\ backend = [proposals |-> [id \in ProjectIds |-> ProposalRow(id)],
                snapshots |-> [id \in ProjectIds |-> SnapshotRows(id)]]
  /\ idx = 0 /\ wpos = 1
  /\ proposal = NoProposal
  /\ snapshots = <<>> /\ transactions = <<>> /\ processedMilestones = <<>>
  /\ allMilestones = <<>> /\ allTransactions = <<>> /\ allProposals = <<>>
  /\ allCollaborators = <<>> /\ processedProjects = <<>>
  /\ adaUsdRate = R(0) /\ globalFinancialsForSheet = <<>>
  /\ initialized = FALSE
  /\ \E ids \in {s \in SeqsUpTo(SyncableIds, MaxProjects) : Injective(s)} :
       files = SyncedFiles(ids)
  /\ writes = <<>> /\ notifications = <<>> /\ exitCode = "none"
  /\ calls = <<>> /\ errorLog = <<>>
  /\ result = Pending

\* handler(req, res); the file system may or may not ignore the case of
\* file names.
Handler ==
  /\ entry = "handler" /\ pc = "request"
  /\ \E ignoresCase \in BOOLEAN :
       /\ result' = [status |-> "resolved",
                     value |-> HandlerResponse(arg, ignoresCase)]
       /\ calls' = Append(calls, Call("readCsv", "Proposals",
                                      IF ignoresCase THEN "data" ELSE "missing"))
  /\ pc' = "done"
  /\ UNCHANGED <<static, idx, locals, accum, rollup, store, outcome, errorLog>>

NextApi == Handler

SpecApi == InitApi /\ [][NextApi]_vars

(***************************************************************************)
(* main for the configurations over a project that is processed from the   *)
(* synthesized milestones (1), one without wallet (3) and one with a       *)
(* reviewed snapshot (5).                                                  *)
(***************************************************************************)
WrittenProjectIds == {1, 3, 5}

InitWrites ==
  /\ entry = "main" /\ arg = 0 /\ pc = "start"
  /\ projectsConfig \in
       [projects : {[i \in 1..Len(ids) |-> ProjectEntry(ids[i])] :
                      ids \in {s \in SeqsUpTo(WrittenProjectIds, MaxProjects) :
                                 Injective(s)}},
        organizations : OrganizationLists]
  /\ backend = [proposals |-> [id \in ProjectIds |-> ProposalRow(id)],
                snapshots |-> [id \in ProjectIds |-> SnapshotRows(id)]]
  /\ InitRun

SpecWrites == InitWrites /\ [][Next]_vars

(***************************************************************************)
(* main with every await as two steps: the request is issued, then its     *)
(* reply resumes the function. An issued request is an entry of calls with *)
(* the reply "pending"; the entry the resumed function appends is its      *)
(* reply.                                                                  *)
(***************************************************************************)
\* The request of the await the run is at, if it is at one.
AwaitedCall ==
  CASE pc = "pp_proposal" -> <<Call("proposals", projectId, "pending")>>
    [] pc = "pp_snapshots" -> <<Call("snapshots", projectId, "pending")>>
    [] pc = "pp_transactions" -> <<Call("indexer", projectId, "pending")>>
    [] pc = "pp_milestones" /\ Len(processedMilestones) < Len(snapshots) ->
         <<Call("proposal id", projectId, "pending")>>
    [] pc = "pp_reviews" -> <<Call("reviews", projectId, "pending")>>
    [] pc = "rate" -> <<Call("ticker", "ADAUSD", "pending")>>
    [] pc = "orgs" /\ organizations[Len(globalFinancialsForSheet) + 1].wallet # "" ->
         <<Call("balance", organizations[Len(globalFinancialsForSheet) + 1].wallet,
                "pending")>>
    [] pc = "notify failure" -> <<Call("webhook", "failure", "pending")>>
    [] pc = "notify success" -> <<Call("webhook", "success", "pending")>>
    [] OTHER -> <<>>

\* The requests of a log that were issued and not answered.
Outstanding(log) ==
  {i \in 1..Len(log) :
     /\ log[i].reply = "pending"
     /\ ~(/\ i < Len(log)
          /\ log[i + 1].kind = log[i].kind
          /\ log[i + 1].target = log[i].target
          /\ log[i + 1].reply # "pending")}

\* The request of the current await is out.
Requested ==
  /\ AwaitedCall # <<>>
  /\ calls # <<>>
  /\ calls[Len(calls)] = AwaitedCall[1]

\* Mutant of Request: a request goes out while another one is outstanding.
RequestEager ==
  /\ entry = "main"
  /\ AwaitedCall # <<>>
  /\ Cardinality(Outstanding(calls)) < 2
  /\ calls' = calls \o AwaitedCall
  /\ UNCHANGED <<static, pc, idx, locals, accum, rollup, store, outcome, errorLog,
                 result>>

\* The call of an awaited function: its request goes out once the await
\* before it has returned.
Request ==
  /\ entry = "main"
  /\ AwaitedCall # <<>>
  /\ Outstanding(calls) = {}
  /\ calls' = calls \o AwaitedCall
  /\ UNCHANGED <<static, pc, idx, locals, accum, rollup, store, outcome, errorLog,
                 result>>

AwaitGetProposalDetails == Requested /\ GetProposalDetails

AwaitFetchSnapshotData == Requested /\ FetchSnapshotData

AwaitProcessWalletTransactions == Requested /\ ProcessWalletTransactions

\* fetchMilestoneData up to its second await: getProposalId throws on an
\* error.
GetProposalId ==
  /\ Requested
  /\ pc = "pp_milestones"
  /\ Len(processedMilestones) < Len(snapshots)
  /\ \E reply \in {"data", "error"} :
       /\ calls' = Append(calls, Call("proposal id", projectId, reply))
       /\ IF reply = "error" THEN Throw("milestone data")
          ELSE /\ pc' = "pp_reviews"
               /\ UNCHANGED <<idx, locals, accum, errorLog, result>>
  /\ UNCHANGED <<static, rollup, store, outcome>>

\* fetchMilestoneData from the reply of the review query on, and the push
\* of the entry in processProject.
QueryReviews ==
  /\ Requested
  /\ pc = "pp_reviews"
  /\ LET snapshot == snapshots[Len(processedMilestones) + 1]
     IN  \E reply \in {"data", "error"} :
           /\ calls' = Append(calls, Call("reviews", projectId, reply))
           /\ IF reply = "error" THEN Throw("milestone data")
              ELSE /\ processedMilestones' =
                        Append(processedMilestones,
                               SnapshotMilestone(proposal, projectId, snapshot,
                                 SelectPoa(SomRows(projectId, snapshot.milestone))))
                   /\ pc' = IF Len(processedMilestones) + 1 = Len(snapshots)
                            THEN "pp_finish" ELSE "pp_milestones"
                   /\ UNCHANGED <<idx, proposal, snapshots, transactions, accum,
                                  errorLog, result>>
  /\ UNCHANGED <<static, rollup, store, outcome>>

AwaitFetchAdaExchangeRate == Requested /\ FetchAdaExchangeRate

\* fetchWalletBalance returns at once without wallet address.
AwaitFetchWalletBalance ==
  /\ pc = "orgs"
  /\ organizations[Len(globalFinancialsForSheet) + 1].wallet # "" => Requested
  /\ FetchWalletBalance

\* sendDiscordNotification returns at once without webhook URL.
Sent == notifications'[Len(notifications')].reply # "no url"

AwaitNotifyFailure == NotifyFailure /\ (Requested <=> Sent)

AwaitNotifySuccess == NotifySuccess /\ (Requested <=> Sent)

NextAwait ==
  \/ MainStart
  \/ ResolveConfig
  \/ Request
  \/ AwaitGetProposalDetails
  \/ AwaitFetchSnapshotData
  \/ AwaitProcessWalletTransactions
  \/ SynthesizeMilestones
  \/ GetProposalId
  \/ QueryReviews
  \/ ReturnProject
  \/ AwaitFetchAdaExchangeRate
  \/ AwaitFetchWalletBalance
  \/ SkipTable
  \/ UpdateCsv
  \/ AwaitNotifyFailure
  \/ AwaitNotifySuccess

SpecAwait == InitWrites /\ [][NextAwait]_vars

(***************************************************************************)
(* Properties of main.                                                     *)
(***************************************************************************)
InProject ==
  pc \in {"pp_config", "pp_proposal", "pp_snapshots", "pp_transactions",
          "pp_milestones", "pp_finish"}

\* The number of projects whose processing has ended.
Finished ==
  IF pc = "start" THEN 0 ELSE IF InProject THEN idx - 1 ELSE Len(projectIds)

FailedIds == {errorLog[i].project : i \in 1..Len(errorLog)}

\* The projects that did not fail among the first n, in configuration order.
Survivors(n) ==
  SelectSeq(SubSeq(projectIds, 1, n), LAMBDA id : id \notin FailedIds)

\* The milestone lists processProject can produce for a project alone.
OwnMilestones(id) ==
  {SynthesizedMilestones(backend.proposals[id], id),
   [k \in 1..Len(backend.snapshots[id]) |->
      SnapshotMilestone(backend.proposals[id], id, backend.snapshots[id][k],
                        SelectPoa(SomRows(id, backend.snapshots[id][k].milestone)))]}

\* p is a value processProject can resolve to for its project alone.
OwnResult(p) ==
  LET id == p.projectId
      own == ProjectEntry(id)
  IN  /\ p.milestones \in OwnMilestones(id)
      /\ \E ok \in BOOLEAN :
           p.transactions = processWalletTransactions(own.wallet, own.dateRanges, ok)
      /\ p = ProjectData(id, own, backend.proposals[id], p.transactions, p.milestones)

Column(rows, c) == [i \in 1..Len(rows) |-> rows[i][c]]

\* C1: a project whose processProject fails, at whatever step, costs the
\* run nothing else: every project ends exactly once, as a failure or as a
\* result, in configuration order; each result is one the project yields on
\* its own (compared whenever a project has just ended); the accumulated
\* rows are the rows of the results in that order; and the totals of every
\* global_financials row are the sums over the accumulated proposals and
\* transactions.
LoopIsolatesFailures ==
  entry = "main" =>
    /\ Len(errorLog) + Len(processedProjects) = Finished
    /\ [i \in 1..Len(processedProjects) |-> processedProjects[i].projectId]
         = Survivors(Finished)
    /\ pc \in {"pp_config", "rate"} =>
         \A i \in 1..Len(processedProjects) : OwnResult(processedProjects[i])
    /\ allMilestones =
         Flatten([i \in 1..Len(processedProjects) |->
                    processedProjects[i].milestonesForSheet])
    /\ allTransactions =
         Flatten([i \in 1..Len(processedProjects) |->
                    processedProjects[i].transactionsForSheet])
    /\ allProposals =
         Flatten([i \in 1..Len(processedProjects) |->
                    processedProjects[i].proposalForSheet])
    /\ allCollaborators =
         Flatten([i \in 1..Len(processedProjects) |->
                    processedProjects[i].collaboratorsForSheet])
    /\ \A i \in 1..Len(globalFinancialsForSheet) :
         /\ globalFinancialsForSheet[i][3] =
              RatSum([k \in 1..Len(allProposals) |-> R(allProposals[k][3])])
         /\ globalFinancialsForSheet[i][8] = RatSum(Column(allTransactions, 5))

\* C1 witness: the first project failed on a milestone fetch, after its
\* snapshots and transactions had arrived, and the second one was processed
\* and its rows were written.
FailedThenProcessed ==
  /\ entry = "main" /\ pc = "exited" /\ exitCode = "0"
  /\ Len(projectIds) = 2
  /\ Len(errorLog) = 1
  /\ errorLog[1] = [project |-> projectIds[1], error |-> "milestone data"]
  /\ Len(processedProjects) = 1
  /\ processedProjects[1].projectId = projectIds[2]
  /\ files["proposals"].rows = processedProjects[1].proposalForSheet

FailedWrites == {i \in 1..Len(writes) : writes[i].reply # "written"}

TablePosition(table) == CHOOSE i \in 1..Len(TableOrder) : TableOrder[i] = table

\* C3: once a table write has failed nothing more is written: the failed
\* write is the last one of the run, the tables after it keep their files,
\* no success notification is ever attempted, and the run ends with exactly
\* one notification attempt, of the failure, and exit status 1.
WriteFailureAborts ==
  (entry = "main" /\ FailedWrites # {}) =>
    /\ FailedWrites = {Len(writes)}
    /\ \A t \in TableNames :
         TablePosition(t) > TablePosition(writes[Len(writes)].table)
           => files[t] = StaleTable
    /\ \A i \in 1..Len(notifications) : notifications[i].message.kind = "failure"
    /\ pc \in {"notify failure", "exited"}
    /\ pc = "exited" => Len(notifications) = 1 /\ exitCode = "1"
    /\ pc = "notify failure" => notifications = <<>> /\ exitCode = "none"

\* C3 witness: the second write of a run failed and the run has ended.
SecondWriteFailed ==
  /\ pc = "exited" /\ exitCode = "1"
  /\ Len(writes) = 2
  /\ writes[1].reply = "written" /\ writes[2].reply = "write error"
  /\ Len(notifications) = 1

\* C4: with no project configured main exits with status 1 at once: no
\* request, no write, no notification.
NoProjectsExits ==
  (entry = "main" /\ Len(projectIds) = 0) =>
    /\ calls = <<>> /\ writes = <<>> /\ notifications = <<>>
    /\ processedProjects = <<>> /\ errorLog = <<>>
    /\ globalFinancialsForSheet = <<>>
    /\ \A t \in TableNames : files[t] = StaleTable
    /\ pc \in {"start", "exited"}
    /\ pc = "exited" => exitCode = "1"

\* C4 witness: a run without projects has ended.
ExitedWithoutProjects ==
  entry = "main" /\ Len(projectIds) = 0 /\ pc = "exited" /\ exitCode = "1"

\* C5: with at least one project configured, a run whose table writes all
\* succeeded ends with exit status 0, whatever failed in the project loop;
\* only a failed write makes it 1.
ExitIgnoresProjectFailures ==
  (entry = "main" /\ Len(projectIds) > 0 /\ pc = "exited") =>
    (exitCode = IF FailedWrites = {} THEN "0" ELSE "1")

\* C5 witness: every project of a two-project run failed, a table was
\* written and the run ended with status 0.
AllFailedExitZero ==
  /\ entry = "main" /\ pc = "exited" /\ exitCode = "0"
  /\ Len(projectIds) = 2 /\ Len(errorLog) = 2
  /\ Len(writes) = 1

(***************************************************************************)
(* Properties of processProject, called on its own.                        *)
(***************************************************************************)
Configured(id) ==
  \E i \in 1..Len(projectsConfig.projects) : projectsConfig.projects[i].project_id = id

\* The project is missing from the configuration or has no wallet.
Misconfigured(id) == ~Configured(id) \/ ProjectEntry(id).wallet = ""

Rejected == pc = "done" /\ result.status = "rejected"
Resolved == pc = "done" /\ result.status = "resolved"

\* C2: processProject rejects, without a second attempt, a project that is
\* not configured or has no wallet before any request is made, and a
\* project without backend proposal after the one proposal request, which
\* is the only request made for it.
FailsFast ==
  entry = "processProject" =>
    /\ Misconfigured(arg) =>
         /\ calls = <<>>
         /\ pc \in {"pp_config", "done"}
         /\ pc = "done" =>
              /\ result.status = "rejected"
              /\ result.value = IF Configured(arg) THEN "no wallet address"
                                ELSE "not in configuration"
    /\ (~Misconfigured(arg) /\ backend.proposals[arg] = NoProposal) =>
         /\ Len(calls) <= 1
         /\ pc \in {"pp_config", "pp_proposal", "done"}
         /\ pc = "done" =>
              /\ calls = <<Call("proposals", arg, "error")>>
              /\ result = [status |-> "rejected", value |-> "no proposal found"]

\* C2 witness: a configured project with a wallet was rejected for want of
\* a backend proposal.
RejectedWithoutProposal ==
  /\ entry = "processProject" /\ Rejected
  /\ ~Misconfigured(arg) /\ backend.proposals[arg] = NoProposal
  /\ Len(calls) = 1

FailedCalls(kinds) ==
  {i \in 1..Len(calls) : calls[i].kind \in kinds /\ calls[i].reply = "error"}

\* C6 as claimed: a call of processProject in which a review request (the
\* proposal id or the review query of fetchMilestoneData), the snapshot
\* request or the indexer request failed still resolves.
UpstreamFailuresDegrade ==
  (entry = "processProject" /\ pc = "done"
     /\ FailedCalls({"proposal id", "reviews", "snapshots", "indexer"}) # {})
    => result.status = "resolved"

\* The snapshot records the call received: none when the request failed.
ReturnedSnapshots ==
  IF FailedCalls({"snapshots"}) # {} THEN <<>> ELSE backend.snapshots[arg]

\* The call resolved for a proposal of which no snapshot record arrived.
ResolvedWithoutSnapshots ==
  entry = "processProject" /\ Resolved /\ ReturnedSnapshots = <<>>

\* Entry i and row i of the result are the defaults of milestone i, but for
\* the cost.
SynthesizedDefaults(value, i) ==
  LET m == value.milestones[i]
      row == value.milestonesForSheet[i]
  IN  /\ m.milestone = i /\ row[3] = i
      /\ m.completion = 0 /\ row[6] = 0
      /\ m.som_signoff_count = 0 /\ m.poa_signoff_count = 0
      /\ row[10] = 0 /\ row[11] = 0
      /\ ~m.outputs_approved /\ ~m.success_criteria_approved
      /\ ~m.evidence_approved /\ ~m.poa_content_approved
      /\ row[12] = FALSE /\ row[13] = FALSE /\ row[14] = FALSE /\ row[15] = FALSE
      /\ row[5] = m.cost

NearestInteger(c, budget, n) ==
  2 * (c * n - budget) <= n /\ 2 * (budget - c * n) < n

MilestoneIndexes(value) ==
  [k \in 1..Len(value.milestones) |-> value.milestones[k].milestone]

\* C8 as claimed: every result has an entry for every index 1..n.
EveryIndexHasEntry ==
  (entry = "processProject" /\ Resolved) =>
    \A i \in 1..result.value.proposal.milestones_qty :
      \E k \in 1..Len(result.value.milestones) :
        result.value.milestones[k].milestone = i

\* C8 amended: a result has an entry for every index 1..n when no snapshot
\* record arrived, and otherwise exactly one entry per snapshot record that
\* arrived, in their order.
EntriesFollowSnapshots ==
  (entry = "processProject" /\ Resolved) =>
    MilestoneIndexes(result.value) =
      IF ReturnedSnapshots = <<>>
      THEN [i \in 1..result.value.proposal.milestones_qty |-> i]
      ELSE [k \in 1..Len(ReturnedSnapshots) |-> ReturnedSnapshots[k].milestone]

\* C8 witness: a proposal of three milestones resolved with the entries of
\* its two snapshots, the first milestone having none.
PartialSnapshotsResolved ==
  /\ entry = "processProject" /\ Resolved
  /\ result.value.proposal.milestones_qty = 3
  /\ MilestoneIndexes(result.value) = <<2, 3>>

(***************************************************************************)
(* Properties of calculateMonthlyBudget.                                   *)
(***************************************************************************)
Returned == entry = "calculateMonthlyBudget" /\ pc = "done"

AllAmounts ==
  \A i \in 1..Len(arg.projectConfig.collaborators) :
    arg.projectConfig.collaborators[i].kind = "amount"

\* The sum of the configured amounts.
ConfiguredAmounts ==
  RatSum([i \in 1..Len(arg.projectConfig.collaborators) |->
            arg.projectConfig.collaborators[i].value])

\* C9: when every collaborator has an explicit amount, each total amount is
\* the configured one and their sum plus organizationFunds is totalBudget,
\* the budget of the proposal.
AmountsReconcile ==
  (Returned /\ AllAmounts) =>
    LET f == result.value
    IN  /\ f.totalBudget = R(arg.proposal.budget)
        /\ Len(f.collaboratorAllocations) = Len(arg.projectConfig.collaborators)
        /\ \A i \in 1..Len(f.collaboratorAllocations) :
             f.collaboratorAllocations[i].totalAmount =
               arg.projectConfig.collaborators[i].value
        /\ RatAdd(ConfiguredAmounts, f.organizationFunds) = f.totalBudget

\* C9 witness: two explicit amounts, a budget and a duration of 12 months.
TwoAmountsReturned ==
  /\ Returned /\ AllAmounts
  /\ Len(arg.projectConfig.collaborators) = 2
  /\ arg.proposal.budget = 3
  /\ ConfiguredAmounts = R(3)
  /\ result.value.months = 12

\* C10 as claimed: with explicit amounts organizationFunds is never
\* negative.
OrganizationFundsNonNegative ==
  (Returned /\ AllAmounts) => result.value.organizationFunds.num >= 0

\* C10 amended: with explicit amounts organizationFunds is negative exactly
\* when the amounts add up to more than the budget; it is neither clamped
\* nor rejected.
OrganizationFundsSign ==
  (Returned /\ AllAmounts) =>
    (result.value.organizationFunds.num < 0
       <=> RatLess(R(arg.proposal.budget), ConfiguredAmounts))

\* C10 witness: amounts of 4 against a budget of 3 leave -1.
AmountsExceedBudget ==
  /\ Returned /\ AllAmounts
  /\ arg.proposal.budget = 3
  /\ ConfiguredAmounts = R(4)
  /\ result.value.organizationFunds = R(0 - 1)

\* The year/month difference of a configured start and end.
ConfiguredMonths ==
  LET d == arg.projectConfig.dateRanges
  IN  (d.end.y - d.start.y) * 12 + (d.end.m - d.start.m)

BothDatesConfigured ==
  /\ arg.projectConfig.dateRanges.start # NoDate
  /\ arg.projectConfig.dateRanges.end # NoDate

\* C11: when the configured end is not after the configured start in whole
\* months, monthlyBudget is totalBudget and the monthly amount of every
\* collaborator with an explicit amount is that amount.
NoDurationKeepsTotals ==
  (Returned /\ BothDatesConfigured /\ ConfiguredMonths <= 0) =>
    LET f == result.value
    IN  /\ f.totalBudget = R(arg.proposal.budget)
        /\ f.monthlyBudget = f.totalBudget
        /\ \A i \in 1..Len(arg.projectConfig.collaborators) :
             arg.projectConfig.collaborators[i].kind = "amount" =>
               /\ f.collaboratorAllocations[i].totalAmount =
                    arg.projectConfig.collaborators[i].value
               /\ f.collaboratorAllocations[i].monthlyAmount =
                    arg.projectConfig.collaborators[i].value

\* C11 witness: an end two months before the start, a budget of 3 and an
\* explicit amount of 2.
NegativeDurationReturned ==
  /\ Returned /\ BothDatesConfigured /\ ConfiguredMonths = 0 - 2
  /\ arg.proposal.budget = 3
  /\ Len(arg.projectConfig.collaborators) = 1
  /\ arg.projectConfig.collaborators[1] = Amount("alice", 2)
  /\ result.value.monthlyBudget = R(3)
  /\ result.value.collaboratorAllocations[1].monthlyAmount = R(2)

\* C12: with a duration of M > 0 months and a budget B, monthlyBudget is B/M,
\* an explicit amount A gives the monthly amount A/M and the fraction A/B
\* (0 when B is 0), and organizationFunds is B minus the total amounts of
\* the collaborators; 120000 over 12 months with one amount of 24000 gives
\* 10000, 2000, 1/5 and 96000.
PositiveDurationDivides ==
  (Returned /\ BothDatesConfigured /\ ConfiguredMonths > 0) =>
    LET f == result.value
        B == arg.proposal.budget
        M == ConfiguredMonths
        cs == arg.projectConfig.collaborators
    IN  /\ f.monthlyBudget = Frac(B, M)
        /\ \A i \in 1..Len(cs) :
             cs[i].kind = "amount" =>
               /\ f.collaboratorAllocations[i].monthlyAmount =
                    Frac(cs[i].value.num, cs[i].value.den * M)
               /\ f.collaboratorAllocations[i].allocation =
                    IF B > 0 THEN Frac(cs[i].value.num, cs[i].value.den * B)
                    ELSE R(0)
        /\ f.organizationFunds =
             RatSub(R(B), RatSum([i \in 1..Len(cs) |->
                                   f.collaboratorAllocations[i].totalAmount]))
        /\ (B = 120000 /\ M = 12 /\ cs = <<Amount("alice", 24000)>>) =>
             /\ f.monthlyBudget = R(10000)
             /\ f.collaboratorAllocations[1].monthlyAmount = R(2000)
             /\ f.collaboratorAllocations[1].allocation = Frac(1, 5)
             /\ f.organizationFunds = R(96000)

\* C12 witness: the scenario of 120000 over 12 months with one amount of
\* 24000.
ScenarioReturned ==
  /\ Returned /\ BothDatesConfigured /\ ConfiguredMonths = 12
  /\ arg.proposal.budget = 120000
  /\ arg.projectConfig.collaborators = <<Amount("alice", 24000)>>
  /\ result.value.monthlyBudget = R(10000)
  /\ result.value.organizationFunds = R(96000)

(***************************************************************************)
(* Properties of the received and remaining funds.                         *)
(***************************************************************************)
\* The transactions the indexer handed to the call of processProject.
FetchedTxs ==
  IF \E i \in 1..Len(calls) : calls[i].kind = "indexer" /\ calls[i].reply = "data"
  THEN WalletTxs(ProjectEntry(arg).wallet)
  ELSE <<>>

\* The lovelaces the outputs from position k on pay to the wallet.
RECURSIVE LovelacesTo(_, _, _)
LovelacesTo(outputs, wallet, k) ==
  IF k > Len(outputs) THEN 0
  ELSE (IF outputs[k].addr = wallet THEN outputs[k].value ELSE 0)
         + LovelacesTo(outputs, wallet, k + 1)

RECURSIVE LovelacesOfTxs(_, _, _)
LovelacesOfTxs(txs, wallet, k) ==
  IF k > Len(txs) THEN 0
  ELSE LovelacesTo(txs[k].outputs, wallet, 1) + LovelacesOfTxs(txs, wallet, k + 1)

\* The "Remaining Funds" cell of the proposal row.
RemainingFunds(value) == value.proposalForSheet[1][5]

\* C13: the amounts of the returned transactions add up to the values of
\* the outputs paid to the tracked wallet and of no other output, the
\* remaining funds are the budget minus that sum, unclamped, and without a
\* matching output the sum is 0 and the remaining funds are the budget.
ReceivedIsMatchingOutputs ==
  (entry = "processProject" /\ Resolved) =>
    LET value == result.value
        wallet == ProjectEntry(arg).wallet
        lovelaces == LovelacesOfTxs(FetchedTxs, wallet, 1)
        received == Frac(lovelaces, LovelacePerAda)
    IN  /\ Len(value.transactions) = Len(FetchedTxs)
        /\ \A i \in 1..Len(FetchedTxs) :
             value.transactions[i].amount =
               Frac(LovelacesTo(FetchedTxs[i].outputs, wallet, 1), LovelacePerAda)
        /\ TotalReceived(value.transactions) = received
        /\ RemainingFunds(value) = RatSub(R(value.proposal.budget), received)
        /\ lovelaces = 0 => RemainingFunds(value) = R(value.proposal.budget)

\* C13 witness: project 1 with a budget of 3 received 7.5 ADA in two of the
\* three outputs of one transaction; the remaining funds are -4.5.
ReceivedMoreThanBudget ==
  /\ entry = "processProject" /\ Resolved /\ arg = 1
  /\ result.value.proposal.budget = 3
  /\ Len(FetchedTxs) = 2
  /\ \E k \in 1..Len(FetchedTxs[1].outputs) :
       FetchedTxs[1].outputs[k].addr # ProjectEntry(arg).wallet
  /\ result.value.transactions[1].amount = Frac(15, 2)
  /\ result.value.transactions[2].amount = R(0)
  /\ RemainingFunds(result.value) = Frac(0 - 9, 2)

(***************************************************************************)
(* Properties of the tabular store.                                        *)
(***************************************************************************)
ReadBack == entry = "updateCsv" /\ pc = "done" /\ result.status = "resolved"

\* C14 as claimed: what either readCsv returns for a file updateCsv wrote is
\* the header followed by the rows, cell for cell.
CsvRoundTrip ==
  ReadBack => result.value.rows = <<arg.headers>> \o arg.values

\* What does hold: the round trip of cells without comma, quote or newline
\* through the readCsv of scripts/csvService.js.
HasPlainCells ==
  \A i \in 1..Len(arg.values) : \A j \in 1..Len(arg.values[i]) :
    /\ ~Includes(arg.values[i][j], Comma)
    /\ ~Includes(arg.values[i][j], Quote)
    /\ ~Includes(arg.values[i][j], Newline)

PlainCsvRoundTrip ==
  (ReadBack /\ result.value.reader = "csvService" /\ HasPlainCells) =>
    result.value.rows = <<arg.headers>> \o arg.values

(***************************************************************************)
(* Properties of the projects handler.                                     *)
(***************************************************************************)
Responded == entry = "handler" /\ pc = "done"

\* The rows of a written table that belong to the project, by the column
\* that holds its identifier.
RowsOfProject(table, column, id) ==
  SelectSeq(files[table].rows, LAMBDA row : Str(row[column]) = id)

FilesFound ==
  \E i \in 1..Len(calls) : calls[i].kind = "readCsv" /\ calls[i].reply = "data"

\* C15 as claimed: a GET with an id answers with the record of the project
\* of that id, with its milestones and transactions, when the proposals
\* table has a row for it and is found, and with not-found only when it has
\* no such row; without id there is one record per proposal row.
HandlerFindsProject ==
  (Responded /\ arg.method = "GET" /\ FilesFound) =>
    LET response == result.value
        hasRow == Len(RowsOfProject("proposals", 1, arg.id)) > 0
    IN  IF arg.id = <<>>
        THEN /\ response.status = 200
             /\ Len(response.body) = Len(files["proposals"].rows)
        ELSE IF hasRow
        THEN /\ response.status = 200
             /\ response.body.proposal[Str("Project ID")] = arg.id
             /\ Len(response.body.milestones) =
                  Len(RowsOfProject("milestones", 2, arg.id))
             /\ Len(response.body.transactions) =
                  Len(RowsOfProject("transactions", 1, arg.id))
        ELSE response.status = 404

\* What does hold: a GET with an id is answered with not-found whatever the
\* proposals table holds.
HandlerNeverFindsProject ==
  (Responded /\ arg.method = "GET" /\ arg.id # <<>>) => result.value.status = 404

\* A GET for project 1 against a proposals table that has its row.
RequestedWrittenProject ==
  /\ Responded /\ arg.method = "GET" /\ FilesFound
  /\ arg.id = Str(1)
  /\ Len(RowsOfProject("proposals", 1, arg.id)) = 1
  /\ result.value.status = 404

(***************************************************************************)
(* Properties of the global rollup.                                        *)
(***************************************************************************)
RateLookupFailed ==
  \E i \in 1..Len(calls) : calls[i].kind = "ticker" /\ calls[i].reply = "error"

\* C16: after a failed rate lookup the rate is 0, the organization loop
\* makes one row per organization, in order, with a converted balance of 0,
\* main goes on to the table writes, and only a failed write can make the
\* run end with status 1; a run that ends with status 0 has written the
\* rows.
RateFailureDegrades ==
  (entry = "main" /\ RateLookupFailed) =>
    /\ adaUsdRate = R(0)
    /\ pc \in {"orgs", "write", "notify failure", "notify success", "exited"}
    /\ pc # "orgs" => Len(globalFinancialsForSheet) = Len(organizations)
    /\ \A i \in 1..Len(globalFinancialsForSheet) :
         /\ globalFinancialsForSheet[i][2] = organizations[i].name
         /\ globalFinancialsForSheet[i][11] = R(0)
    /\ pc = "notify failure" => FailedWrites # {}
    /\ (pc = "exited" /\ exitCode = "1") => FailedWrites # {}
    /\ (pc = "exited" /\ exitCode = "0" /\ Len(organizations) > 0) =>
         files["global_financials"] =
           Table(Headers("global_financials"), globalFinancialsForSheet)

\* C16 witness: the lookup failed, the wallet of the first of two
\* organizations holds 10.5 ADA, and the run ended with status 0.
RateFailedRunCompleted ==
  /\ entry = "main" /\ RateLookupFailed
  /\ pc = "exited" /\ exitCode = "0"
  /\ Len(organizations) = 2 /\ Len(globalFinancialsForSheet) = 2
  /\ globalFinancialsForSheet[1][10] = Frac(21, 2)
  /\ globalFinancialsForSheet[1][11] = R(0)
  /\ files["global_financials"].rows = globalFinancialsForSheet

\* months is within half a month of balance / rate when rate > 0, and 0
\* otherwise.
IsRunway(months, balance, rate) ==
  IF rate > 0
  THEN 2 * Abs(balance.num - months * balance.den * rate) <= balance.den * rate
  ELSE months = 0

\* C17: in every row of global_financials the months with the real and with
\* the maximum budget are the wallet balance of the row (a whole number of
\* hundredths in this model, so the balance column holds it exactly) divided
\* by that budget and rounded to the nearest whole number when the budget is
\* positive, and 0 when it is not.
RunwayIsRoundedQuotient ==
  entry = "main" =>
    \A i \in 1..Len(globalFinancialsForSheet) :
      LET row == globalFinancialsForSheet[i]
      IN  /\ row[4] = organizations[i].realMonthlyBudget
          /\ row[6] = organizations[i].maxMonthlyBudget
          /\ IsRunway(row[5], row[10], row[4])
          /\ IsRunway(row[7], row[10], row[6])
          /\ files["global_financials"] # StaleTable =>
               files["global_financials"].rows = globalFinancialsForSheet

\* C17 witness: a written row with a balance of 10.5 ADA, a real budget of 3
\* (3.5 months, written as 4) and a maximum budget of -1 (written as 0).
RunwayRowWritten ==
  /\ entry = "main" /\ pc = "exited" /\ exitCode = "0"
  /\ Len(globalFinancialsForSheet) = 1
  /\ files["global_financials"].rows = globalFinancialsForSheet
  /\ globalFinancialsForSheet[1][10] = Frac(21, 2)
  /\ globalFinancialsForSheet[1][4] = 3 /\ globalFinancialsForSheet[1][5] = 4
  /\ globalFinancialsForSheet[1][6] = 0 - 1 /\ globalFinancialsForSheet[1][7] = 0

(***************************************************************************)
(* Properties of the notification.                                         *)
(***************************************************************************)
\* C18: the step that attempts a notification leaves the files and the log
\* of writes as they are and ends the run with the status that goes with
\* the message (0 after the completion message, 1 after the failure
\* message), whether the webhook URL is absent, the send fails or succeeds.
NotificationIsBestEffort ==
  [][Len(notifications') > Len(notifications) =>
       /\ files' = files /\ writes' = writes
       /\ Len(notifications') = Len(notifications) + 1
       /\ pc' = "exited"
       /\ exitCode' = IF notifications'[Len(notifications')].message.kind = "success"
                      THEN "0" ELSE "1"
       /\ notifications'[Len(notifications')].message.kind =
            IF FailedWrites = {} THEN "success" ELSE "failure"]_vars

\* C18 witness: the send of the completion message failed after two tables
\* were written, and the run ended with status 0.
SendFailedRunCompleted ==
  /\ entry = "main" /\ pc = "exited" /\ exitCode = "0"
  /\ Len(notifications) = 1 /\ notifications[1].reply = "send error"
  /\ Len(writes) >= 2 /\ FailedWrites = {}
  /\ files["proposals"] # StaleTable

(***************************************************************************)
(* Properties of the global totals.                                        *)
(***************************************************************************)
Totalled == entry = "totals" /\ pc = "done"

\* C19 as claimed: the totals of two runs over the same processed projects
\* are the same, whatever the two orders.
TotalsIgnoreOrder ==
  Totalled => result.value.first = result.value.second

\* What does hold: the total budget is the same, and so is the total
\* received of at most two projects.
TotalsOfTwoIgnoreOrder ==
  Totalled =>
    /\ result.value.first.totalBudgetAll = result.value.second.totalBudgetAll
    /\ Len(arg.first) <= 2 =>
         result.value.first.totalReceivedAll = result.value.second.totalReceivedAll

\* The projects that received 0.1, 0.2 and 0.3 ADA, processed in that order
\* and in the opposite one.
ThreeProjectsBothOrders ==
  /\ Totalled
  /\ arg.first = <<Processed(10, <<100000>>), Processed(10, <<200000>>),
                   Processed(9, <<300000>>)>>
  /\ arg.second = <<arg.first[3], arg.first[2], arg.first[1]>>
  /\ result.value.first.totalReceivedAll =
       Double(0 - 1, <<3, 3, 3, 3, 3, 3, 3, 3, 3, 3, 3, 3, 4>>)
  /\ result.value.second.totalReceivedAll =
       Double(0 - 1, <<3, 3, 3, 3, 3, 3, 3, 3, 3, 3, 3, 3, 3>>)

(***************************************************************************)
(* Properties of fetchMilestoneData.                                       *)
(***************************************************************************)
Fetched == entry = "fetchMilestoneData" /\ pc = "done" /\ result.status = "resolved"

\* The greatest created_at of the signoffs of a variant, 0 without signoff.
LatestSignoff(poa) ==
  IF Len(poa.signoffs) = 0 THEN 0
  ELSE CHOOSE t \in {poa.signoffs[i].created_at : i \in 1..Len(poa.signoffs)} :
         \A i \in 1..Len(poa.signoffs) : poa.signoffs[i].created_at <= t

\* The variants of the row the query returned, none without row.
Variants == IF Len(arg) > 0 THEN arg[1].poas ELSE <<>>

\* The result keeps of the variants only one whose rank is the greatest;
\* ranks[j] is the rank of variant j.
KeepsGreatest(ranks) ==
  IF Len(Variants) > 1
  THEN /\ Len(result.value) = Len(arg)
       /\ result.value[1] = [arg[1] EXCEPT !.poas = result.value[1].poas]
       /\ Len(result.value[1].poas) = 1
       /\ \E k \in 1..Len(Variants) :
            /\ result.value[1].poas[1] = Variants[k]
            /\ \A j \in 1..Len(Variants) : ranks[j] <= ranks[k]
  ELSE result.value = arg

\* C20 as claimed: of more than one variant the one with the greatest
\* latest signoff is kept, a variant without signoff ranking lowest; zero
\* or one variant are returned as they are.
KeepsLatestSignedPoa ==
  Fetched => KeepsGreatest([j \in 1..Len(Variants) |-> LatestSignoff(Variants[j])])

\* What does hold: the variant kept is one whose first returned signoff is
\* the greatest.
KeepsFirstSignedPoa ==
  Fetched => KeepsGreatest([j \in 1..Len(Variants) |-> SignoffDate(Variants[j])])

\* A variant signed off at 1 and a variant signed off at 1 and again at 2:
\* the first is kept.
LaterSignoffIgnored ==
  /\ Fetched
  /\ arg = <<SomRow(<<SignedPoa(FALSE, <<1>>), SignedPoa(TRUE, <<1, 2>>)>>)>>
  /\ result.value[1].poas = <<SignedPoa(FALSE, <<1>>)>>

(***************************************************************************)
(* Properties of the awaits of main.                                       *)
(***************************************************************************)
ProjectCallKinds == {"proposals", "snapshots", "indexer", "proposal id", "reviews"}

\* The entries of calls that belong to a project, and those of the rollup
\* and of the notification.
ProjectCalls == {i \in 1..Len(calls) : calls[i].kind \in ProjectCallKinds}

GlobalCalls == (1..Len(calls)) \ ProjectCalls

\* The place of a project in the configuration.
Position(id) == CHOOSE k \in 1..Len(projectIds) : projectIds[k] = id

\* The projects whose processProject has returned or thrown.
Ended ==
  FailedIds \cup {processedProjects[i].projectId : i \in 1..Len(processedProjects)}

\* C21: at most one request is outstanding at any time, and it is the one
\* issued last; a request for a project is in the log only when every
\* project configured before it has ended, by a result or by a failure,
\* and is outstanding only while its project has not ended; the projects
\* end, and their requests appear, in configuration order; the requests of
\* the rollup and of the notification come after the last project has
\* ended.
OneCallAtATime ==
  entry = "main" =>
    LET outstanding == Outstanding(calls)
        ended == Cardinality(Ended)
    IN  /\ Cardinality(outstanding) <= 1
        /\ outstanding \subseteq {Len(calls)}
        /\ Ended = {projectIds[k] : k \in 1..ended}
        /\ \A i \in ProjectCalls :
             /\ Position(calls[i].target) <= ended + 1
             /\ i \in outstanding => calls[i].target \notin Ended
             /\ i > 1 =>
                  /\ i - 1 \in ProjectCalls
                  /\ Position(calls[i - 1].target) <= Position(calls[i].target)
        /\ GlobalCalls # {} => ended = Len(projectIds)

\* C21 witness: the first request of the second project is outstanding;
\* the first project was asked for its proposal, its snapshots and its
\* transactions and failed on its milestone data.
SecondProjectRequested ==
  /\ entry = "main"
  /\ Len(projectIds) = 2
  /\ errorLog = <<[project |-> projectIds[1], error |-> "milestone data"]>>
  /\ Outstanding(calls) = {Len(calls)}
  /\ calls[Len(calls)] = Call("proposals", projectIds[2], "pending")
  /\ Cardinality({i \in ProjectCalls : calls[i].target = projectIds[1]}) >= 8

(***************************************************************************)
(* Properties of the end of main.                                          *)
(***************************************************************************)
\* The tables the run has rows for, in the order main writes them.
TablesWithRows == SelectSeq(TableOrder, LAMBDA t : Len(RowsFor(t)) > 0)

WrittenTables == [i \in 1..Len(writes) |-> writes[i].table]

\* C22: a run attempts at most one notification, and attempts it after
\* the project loop, as its last step; the success notification is
\* attempted only when every table the run has rows for was written, in
\* order and without error, and the failure notification only after a
\* failed write, so that never both are attempted; a run without projects
\* attempts none.
OneNotification ==
  entry = "main" =>
    /\ Len(notifications) <= 1
    /\ notifications # <<>> =>
         /\ pc = "exited"
         /\ Len(projectIds) > 0
         /\ Cardinality(Ended) = Len(projectIds)
         /\ IF notifications[1].message.kind = "success"
            THEN /\ FailedWrites = {}
                 /\ WrittenTables = TablesWithRows
                 /\ exitCode = "0"
            ELSE /\ FailedWrites = {Len(writes)}
                 /\ exitCode = "1"
    /\ pc = "exited" /\ Len(projectIds) > 0 => Len(notifications) = 1

\* C22 witness: a run wrote its five tables and then attempted the success
\* notification, which is its only one.
NotifiedAfterFiveWrites ==
  /\ entry = "main" /\ pc = "exited"
  /\ Len(writes) = 5 /\ FailedWrites = {}
  /\ Len(notifications) = 1
  /\ notifications[1].message.kind = "success"
  /\ notifications[1].reply = "sent"

\* C23: main writes a table only when the run has rows for it, and a
\* written file holds the header and those rows; a table the run has no
\* row for keeps the file of the earlier run. A run whose writes all
\* returned ends with every table that has rows rewritten, every other
\* file unchanged, the success notification and exit status 0.
TablesWithoutRowsAreKept ==
  entry = "main" =>
    /\ \A i \in 1..Len(writes) : Len(RowsFor(writes[i].table)) > 0
    /\ \A t \in TableNames :
         files[t] # StaleTable =>
           /\ Len(RowsFor(t)) > 0
           /\ files[t] = Table(Headers(t), RowsFor(t))
    /\ (pc = "exited" /\ FailedWrites = {} /\ Len(projectIds) > 0) =>
         /\ \A t \in TableNames :
              files[t] = IF Len(RowsFor(t)) > 0 THEN Table(Headers(t), RowsFor(t))
                         ELSE StaleTable
         /\ exitCode = "0"
         /\ Len(notifications) = 1
         /\ notifications[1].message.kind = "success"

\* C23 witness: both projects of a run failed and organizations are
\* configured: only global_financials was rewritten, the four other files
\* are those of the earlier run, and the run reported success for zero
\* projects.
OnlyRollupRewritten ==
  /\ entry = "main" /\ pc = "exited" /\ exitCode = "0"
  /\ Len(projectIds) = 2 /\ Len(errorLog) = 2
  /\ WrittenTables = <<"global_financials">>
  /\ files["global_financials"] =
       Table(Headers("global_financials"), globalFinancialsForSheet)
  /\ \A t \in TableNames \ {"global_financials"} : files[t] = StaleTable
  /\ notifications[1].message = SuccessMessage(<<>>, <<>>)

====
